---- MODULE Spec2Model ----
(***************************************************************************)
(* A model of the read/update effect system: effects, variable bags,       *)
(* substitutions, simplification and unification (effects/base.ts), with   *)
(* the pretty printer it uses for error locations (effects/printing.ts).   *)
(*                                                                         *)
(* JavaScript objects are modelled as records.  Two things in the code     *)
(* depend on object identity, so they are modelled explicitly:             *)
(*  - the `vars` array of a concrete bag is a heap cell (sortStrings sorts *)
(*    it in place, and every alias sees the sorted array): a concrete bag  *)
(*    is [kind |-> "concrete", vars |-> address] and the heap maps         *)
(*    addresses to sequences of names;                                     *)
(*  - a quantified bag carries the identity of its object in `ref`         *)
(*    (new Set<Variables>(..) in uniqueVariables removes an object only    *)
(*    when the very same object occurs twice).                             *)
(* Val(h, x) is what JSON.stringify sees: arrays read from the heap,       *)
(* identities dropped.                                                     *)
(***************************************************************************)
EXTENDS Integers, Sequences, FiniteSets, TLC

VARIABLES heap, ea, eb, subsA, subsB, bag, bagA, bagB, pc, out, out2, applied, applied2

(* the language server (server.ts): the effects kept for each document,    *)
(* the documents they belong to, the diagnostics last sent for each        *)
(* document, and the document being handled with the outcome of the        *)
(* inference on each of its nodes, and the answer to the last hover        *)
(* request                                                                 *)
VARIABLES effectsByDocument, documentsByUri, diagnostics, textDocument, tntModule, hover

(* the name resolver (nameResolver.ts): the definition table, the scopes   *)
(* of each node, the nodes of the module in the order of the walk, how     *)
(* many of them were visited, and the visitor's fields                     *)
VARIABLES table, scopeTree, walk, visited, nameResults, defName, resolution

(* the REPL (repl.ts): the text collected in multiline mode, the flag and   *)
(* the counters of nextLine, the prompt of the readline interface, the     *)
(* REPL state, the event handled last with the calls its handler made,     *)
(* and the number of events handled                                        *)
VARIABLES multilineText, recyclingOwnOutput, nOpenBraces, nOpenParen, nOpenComments,
          rlPrompt, state, event, calls, nEvents

serverVars == <<effectsByDocument, documentsByUri, diagnostics, textDocument, tntModule, hover>>

resolverVars == <<table, scopeTree, walk, visited, nameResults, defName, resolution>>

replVars ==
  <<multilineText, recyclingOwnOutput, nOpenBraces, nOpenParen, nOpenComments,
    rlPrompt, state, event, calls, nEvents>>

vars ==
  <<heap, ea, eb, subsA, subsB, bag, bagA, bagB, pc, out, out2, applied, applied2,
    serverVars, resolverVars, replVars>>

(***************************************************************************)
(* Names.  State variables are listed in ascending string order.           *)
(***************************************************************************)
StateVars == <<"x", "y">>

BagNames == {"v", "w"}

(* "v" names an effect and a bag: the two kinds of names are separate *)
EffectNames == {"e", "v"}

Rank(n) == CHOOSE i \in 1..Len(StateVars) : StateVars[i] = n

(* n1 > n2 on strings *)
Greater(n1, n2) == Rank(n1) > Rank(n2)

(***************************************************************************)
(* Generic sequence helpers.                                               *)
(***************************************************************************)
RECURSIVE Join(_, _)
Join(ss, sep) ==
  IF Len(ss) = 0 THEN ""
  ELSE IF Len(ss) = 1 THEN ss[1]
  ELSE ss[1] \o sep \o Join(Tail(ss), sep)

RECURSIVE Flat(_)
Flat(ss) == IF Len(ss) = 0 THEN <<>> ELSE ss[1] \o Flat(Tail(ss))

Range(s) == {s[i] : i \in 1..Len(s)}

Count(s, x) == Cardinality({i \in 1..Len(s) : s[i] = x})

(* Array.from(new Set(s)): the first occurrence of every element, in order *)
Dedup(s) ==
  LET keep == {i \in 1..Len(s) : \A j \in 1..(i - 1) : s[j] # s[i]}
      RECURSIVE Pick(_)
      Pick(i) == IF i > Len(s) THEN <<>>
                 ELSE IF i \in keep THEN <<s[i]>> \o Pick(i + 1) ELSE Pick(i + 1)
  IN Pick(1)

(***************************************************************************)
(* Constructors of the data model (base.ts, lines 19-79).                  *)
(***************************************************************************)
ConcreteVars(addr) == [kind |-> "concrete", vars |-> addr]

QuantifiedVars(name, ref) == [kind |-> "quantified", name |-> name, ref |-> ref]

UnionVars(variables) == [kind |-> "union", variables |-> variables]

Quantified(name) == [kind |-> "quantified", name |-> name]

Concrete(read, update) == [kind |-> "concrete", read |-> read, update |-> update]

Arrow(params, result) == [kind |-> "arrow", params |-> params, result |-> result]

VariableSub(name, value) == [kind |-> "variable", name |-> name, value |-> value]

EffectSub(name, value) == [kind |-> "effect", name |-> name, value |-> value]

NoMessage == "<none>"

ErrorTree(location, message, children) ==
  [location |-> location, message |-> message, children |-> children]

(* Either: right(v) and left(e).  An error is one tree or an array of      *)
(* trees (type Error = ErrorTree | ErrorTree[]).                           *)
Right(h, v) == [h |-> h, ok |-> TRUE, v |-> v]

Left(h, e) == [h |-> h, ok |-> FALSE, many |-> FALSE, err |-> e]

LeftMany(h, es) == [h |-> h, ok |-> FALSE, many |-> TRUE, err |-> es]

(* the heap: a new array is appended, its address is its index *)
Alloc(h, names) == [h |-> Append(h, names), v |-> Len(h) + 1]

(***************************************************************************)
(* Pretty printing (printing.ts).                                          *)
(***************************************************************************)
RECURSIVE variablesToString(_, _)
variablesToString(h, v) ==
  CASE v.kind = "concrete" ->
         Join([i \in 1..Len(h[v.vars]) |-> "'" \o h[v.vars][i] \o "'"], ", ")
    [] v.kind = "quantified" -> v.name
    [] v.kind = "union" ->
         Join([i \in 1..Len(v.variables) |-> variablesToString(h, v.variables[i])], ", ")

RECURSIVE effectToString(_, _)
effectToString(h, e) ==
  CASE e.kind = "concrete" ->
         LET r == IF e.read.kind # "concrete" \/ Len(h[e.read.vars]) > 0
                  THEN <<"Read[" \o variablesToString(h, e.read) \o "]">> ELSE <<>>
             u == IF e.update.kind # "concrete" \/ Len(h[e.update.vars]) > 0
                  THEN <<"Update[" \o variablesToString(h, e.update) \o "]">> ELSE <<>>
             output == r \o u
         IN IF Len(output) > 0 THEN Join(output, " & ") ELSE "Pure"
    [] e.kind = "quantified" -> e.name
    [] e.kind = "arrow" ->
         "(" \o Join([i \in 1..Len(e.params) |-> effectToString(h, e.params[i])], ", ")
             \o ") => " \o effectToString(h, e.result)

(* `${array}` of strings: the names joined by commas, no quotes *)
NamesToString(names) == Join(names, ",")

(* `${array}` of objects *)
ObjectsToString(objs) == Join([i \in 1..Len(objs) |-> "[object Object]"], ",")

(***************************************************************************)
(* What a value looks like from outside: arrays read from the heap, object *)
(* identities dropped (the view of JSON.stringify and of deep equality).   *)
(***************************************************************************)
RECURSIVE ValVars(_, _)
ValVars(h, v) ==
  CASE v.kind = "concrete" -> [kind |-> "concrete", vars |-> h[v.vars]]
    [] v.kind = "quantified" -> [kind |-> "quantified", name |-> v.name]
    [] v.kind = "union" ->
         [kind |-> "union",
          variables |-> [i \in 1..Len(v.variables) |-> ValVars(h, v.variables[i])]]

RECURSIVE ValEffect(_, _)
ValEffect(h, e) ==
  CASE e.kind = "concrete" ->
         [kind |-> "concrete", read |-> ValVars(h, e.read), update |-> ValVars(h, e.update)]
    [] e.kind = "quantified" -> e
    [] e.kind = "arrow" ->
         [kind |-> "arrow",
          params |-> [i \in 1..Len(e.params) |-> ValEffect(h, e.params[i])],
          result |-> ValEffect(h, e.result)]

ValSub(h, s) ==
  [kind |-> s.kind, name |-> s.name,
   value |-> IF s.kind = "effect" THEN ValEffect(h, s.value) ELSE ValVars(h, s.value)]

ValSubs(h, subs) == [i \in 1..Len(subs) |-> ValSub(h, subs[i])]

(***************************************************************************)
(* Canonical forms (base.ts, lines 258-329).                               *)
(***************************************************************************)
RECURSIVE findVars(_, _)
findVars(h, variables) ==
  CASE variables.kind = "quantified" -> <<>>
    [] variables.kind = "concrete" -> h[variables.vars]
    [] variables.kind = "union" ->
         Flat([i \in 1..Len(variables.variables) |-> findVars(h, variables.variables[i])])

(* a result and the results that follow it, as one array *)
Cons(first, rest) == [h |-> rest.h, v |-> <<first.v>> \o rest.v]

(* variables.length > 1 ? { kind: 'union', variables } : variables[0] *)
UnionOrOnly(h, variables) ==
  IF Len(variables) > 1
  THEN [h |-> h, v |-> UnionVars(variables)]
  ELSE [h |-> h, v |-> variables[1]]

(* unionVariables.concat({ kind: 'concrete', vars: vars }) *)
WithConcrete(unionVariables, cell) ==
  UnionOrOnly(cell.h, unionVariables \o <<ConcreteVars(cell.v)>>)

(* { kind: 'concrete', vars: <the new array> } *)
NewConcrete(cell) == [h |-> cell.h, v |-> ConcreteVars(cell.v)]

(* the quantified children and the children of the flattened unions *)
UnionVariablesOf(flattenVariables) ==
  Flat([i \in 1..Len(flattenVariables) |->
          CASE flattenVariables[i].kind = "quantified" -> <<flattenVariables[i]>>
            [] flattenVariables[i].kind = "concrete" -> <<>>
            [] flattenVariables[i].kind = "union" -> flattenVariables[i].variables])

(* the names of the concrete children *)
VarsOf(h, flattenVariables) ==
  Flat([i \in 1..Len(flattenVariables) |->
          IF flattenVariables[i].kind = "concrete" THEN h[flattenVariables[i].vars] ELSE <<>>])

FlattenedUnion(h, unionVariables, names) ==
  IF Len(unionVariables) > 0
  THEN IF Len(names) > 0
       THEN WithConcrete(unionVariables, Alloc(h, names))
       ELSE UnionOrOnly(h, unionVariables)
  ELSE NewConcrete(Alloc(h, names))

FlattenChildren(fl) == FlattenedUnion(fl.h, UnionVariablesOf(fl.v), VarsOf(fl.h, fl.v))

(* flattenUnions, with the arrays it creates.  The children are flattened  *)
(* first; quantified children and the children of flattened unions are     *)
(* pushed to unionVariables, the names of concrete children to vars.       *)
RECURSIVE flattenUnions(_, _)
RECURSIVE FlattenEach(_, _)
FlattenRest(first, vs) == Cons(first, FlattenEach(first.h, Tail(vs)))

FlattenEach(h, vs) ==
  IF Len(vs) = 0 THEN [h |-> h, v |-> <<>>] ELSE FlattenRest(flattenUnions(h, vs[1]), vs)

flattenUnions(h, variables) ==
  IF variables.kind = "union"
  THEN FlattenChildren(FlattenEach(h, variables.variables))
  ELSE [h |-> h, v |-> variables]

(* new Set<Variables>(children): an object is dropped when the same object *)
(* came earlier.  The concrete and union children are new objects; only a  *)
(* quantified child can be the object of an earlier child.                 *)
SameObject(v1, v2) ==
  v1.kind = "quantified" /\ v2.kind = "quantified" /\ v1.ref = v2.ref

DistinctObjects(vs) ==
  LET keep == {i \in 1..Len(vs) : \A j \in 1..(i - 1) : ~SameObject(vs[j], vs[i])}
      RECURSIVE Pick(_)
      Pick(i) == IF i > Len(vs) THEN <<>>
                 ELSE IF i \in keep THEN <<vs[i]>> \o Pick(i + 1) ELSE Pick(i + 1)
  IN Pick(1)

RECURSIVE uniqueVariables(_, _)
RECURSIVE UniqueEach(_, _)
UniqueRest(first, vs) == Cons(first, UniqueEach(first.h, Tail(vs)))

UniqueEach(h, vs) ==
  IF Len(vs) = 0 THEN [h |-> h, v |-> <<>>] ELSE UniqueRest(uniqueVariables(h, vs[1]), vs)

UniqueUnion(nestedVariables) ==
  [h |-> nestedVariables.h, v |-> UnionVars(DistinctObjects(nestedVariables.v))]

uniqueVariables(h, variables) ==
  CASE variables.kind = "quantified" -> [h |-> h, v |-> variables]
    [] variables.kind = "concrete" -> NewConcrete(Alloc(h, Dedup(h[variables.vars])))
    [] variables.kind = "union" -> UniqueUnion(UniqueEach(h, variables.variables))

(* updateVars.filter(v => updateVars.filter(v2 => v === v2).length > 1) *)
Repeated(updateVars) == SelectSeq(updateVars, LAMBDA n : Count(updateVars, n) > 1)

SimplifiedOrError(h, e, read, update, repeated) ==
  IF Len(repeated) > 0
  THEN Left(update.h,
            ErrorTree("Trying to simplify effect " \o effectToString(h, e),
                      "Multiple updates of variable(s): " \o NamesToString(Dedup(repeated)),
                      <<>>))
  ELSE Right(update.h, Concrete(read.v, update.v))

SimplifyUpdate(h, e, read) ==
  SimplifiedOrError(h, e, read, flattenUnions(read.h, e.update), Repeated(findVars(h, e.update)))

UniqueFlattened(flat) == uniqueVariables(flat.h, flat.v)

simplifyConcreteEffect(h, e) == SimplifyUpdate(h, e, UniqueFlattened(flattenUnions(h, e.read)))

(***************************************************************************)
(* Substitution engine (base.ts, lines 146-157, 225-256 and 331-346).      *)
(***************************************************************************)
(* subs.find(s => s.name === name): the first binding with the name, of    *)
(* either kind; 0 when there is none                                       *)
Find(subs, name) ==
  IF \E i \in 1..Len(subs) : subs[i].name = name
  THEN CHOOSE i \in 1..Len(subs) :
         subs[i].name = name /\ \A j \in 1..(i - 1) : subs[j].name # name
  ELSE 0

VariablesBound(subs, variables, sub) ==
  IF sub # 0 /\ subs[sub].kind = "variable" THEN subs[sub].value ELSE variables

RECURSIVE applySubstitutionToVariables(_, _)
applySubstitutionToVariables(subs, variables) ==
  CASE variables.kind = "quantified" ->
         VariablesBound(subs, variables, Find(subs, variables.name))
    [] variables.kind = "union" ->
         UnionVars([i \in 1..Len(variables.variables) |->
                      applySubstitutionToVariables(subs, variables.variables[i])])
    [] OTHER -> variables

(* buildErrorTree without the test of the location *)
buildErrorTreeAlways(location, many, errors) ==
  ErrorTree(location, NoMessage, IF many THEN errors ELSE <<errors>>)

buildErrorTree(location, many, errors) ==
  IF ~many /\ location = errors.location
  THEN errors
  ELSE ErrorTree(location, NoMessage, IF many THEN errors ELSE <<errors>>)

buildErrorLeaf(location, message) == ErrorTree(location, message, <<>>)

(* mergeInMany over results computed one after the other: the values when  *)
(* all are right, else the array of all the errors                         *)
MergeInMany(h, results) ==
  IF \A i \in 1..Len(results) : results[i].ok
  THEN Right(h, [i \in 1..Len(results) |-> results[i].v])
  ELSE LeftMany(h, Flat([i \in 1..Len(results) |->
                           IF results[i].ok THEN <<>> ELSE <<results[i].err>>]))

LastHeap(h, results) == IF Len(results) = 0 THEN h ELSE results[Len(results)].h

MergeEach(h, results) == MergeInMany(LastHeap(h, results), results)

MergeTwo(first, second) == MergeInMany(second.h, <<first, second>>)

RECURSIVE applySubstitution(_, _, _)
RECURSIVE ApplyEach(_, _, _)
ApplyRest(first, subs, es) == <<first>> \o ApplyEach(first.h, subs, Tail(es))

(* es.map(e => applySubstitution(subs, e)), each call on the heap the      *)
(* previous one left                                                       *)
ApplyEach(h, subs, es) ==
  IF Len(es) = 0 THEN <<>> ELSE ApplyRest(applySubstitution(h, subs, es[1]), subs, es)

(* result.chain(e => e.kind === 'concrete' ? simplifyConcreteEffect(e) : right(e)) *)
SimplifyRight(result) ==
  IF result.ok /\ result.v.kind = "concrete"
  THEN simplifyConcreteEffect(result.h, result.v)
  ELSE result

EffectBound(h, subs, e, sub) ==
  IF sub # 0 /\ subs[sub].kind = "effect" THEN Right(h, subs[sub].value) ELSE Right(h, e)

ArrowLocation(h, e) == "Applying substitution to arrow effect " \o effectToString(h, e)

ArrowOf(location, arrowParams, arrowResult) ==
  IF arrowResult.ok
  THEN Right(arrowResult.h, Arrow(arrowParams.v, arrowResult.v))
  ELSE Left(arrowResult.h, buildErrorTree(location, FALSE, arrowResult.err))

ApplyToResult(subs, e, location, arrowParams) ==
  IF arrowParams.ok
  THEN ArrowOf(location, arrowParams, applySubstitution(arrowParams.h, subs, e.result))
  ELSE Left(arrowParams.h, buildErrorTree(location, TRUE, arrowParams.err))

applySubstitution(h, subs, e) ==
  SimplifyRight(
    CASE e.kind = "quantified" -> EffectBound(h, subs, e, Find(subs, e.name))
      [] e.kind = "arrow" ->
           ApplyToResult(subs, e, ArrowLocation(h, e), MergeEach(h, ApplyEach(h, subs, e.params)))
      [] e.kind = "concrete" ->
           Right(h, Concrete(applySubstitutionToVariables(subs, e.read),
                             applySubstitutionToVariables(subs, e.update))))

(* mergeInMany([applySubstitution(subs, e1), applySubstitution(subs, e2)]) *)
ApplySecond(first, subs, e2) == MergeTwo(first, applySubstitution(first.h, subs, e2))

ApplyToBoth(h, subs, e1, e2) == ApplySecond(applySubstitution(h, subs, e1), subs, e2)

WithName(name, r) == IF r.ok THEN Right(r.h, EffectSub(name, r.v)) ELSE r

applySubstitutionsToSubstitution(h, subs, s) ==
  IF s.kind = "effect"
  THEN WithName(s.name, applySubstitution(h, subs, s.value))
  ELSE Right(h, VariableSub(s.name, applySubstitutionToVariables(subs, s.value)))

RECURSIVE ApplyToEachSubstitution(_, _, _)
ApplyToRest(first, s1, s2) == <<first>> \o ApplyToEachSubstitution(first.h, s1, Tail(s2))

ApplyToEachSubstitution(h, s1, s2) ==
  IF Len(s2) = 0 THEN <<>>
  ELSE ApplyToRest(applySubstitutionsToSubstitution(h, s1, s2[1]), s1, s2)

Concat(s1, s2, merged) ==
  IF merged.ok
  THEN Right(merged.h, s1 \o merged.v)
  ELSE Left(merged.h,
            buildErrorTree("Composing substitutions " \o ObjectsToString(s1)
                             \o " and " \o ObjectsToString(s2),
                           TRUE, merged.err))

compose(h, s1, s2) == Concat(s1, s2, MergeEach(h, ApplyToEachSubstitution(h, s1, s2)))

(***************************************************************************)
(* Occurs check (base.ts, lines 348-383).                                  *)
(***************************************************************************)
Name(kind, name) == [kind |-> kind, name |-> name]

RECURSIVE variablesNames(_)
variablesNames(variables) ==
  CASE variables.kind = "concrete" -> <<>>
    [] variables.kind = "quantified" -> <<Name("variable", variables.name)>>
    [] variables.kind = "union" ->
         Flat([i \in 1..Len(variables.variables) |-> variablesNames(variables.variables[i])])

RECURSIVE effectNames(_)
effectNames(effect) ==
  CASE effect.kind = "concrete" ->
         variablesNames(effect.read) \o variablesNames(effect.update)
    [] effect.kind = "arrow" ->
         Flat([i \in 1..Len(effect.params) |-> effectNames(effect.params[i])])
           \o effectNames(effect.result)
    [] effect.kind = "quantified" -> <<Name("effect", effect.name)>>

(* names.includes({ kind: .., name: .. }): Array.prototype.includes        *)
(* compares with SameValueZero, which on objects is identity, and the      *)
(* argument is an object created by the call: it is none of the elements,  *)
(* whatever their fields are.                                              *)
IsSameObject(element, created) == FALSE

Includes(names, created) == \E i \in 1..Len(names) : IsSameObject(names[i], created)

bindEffect(h, name, effect) ==
  IF Includes(effectNames(effect), Name("effect", name))
  THEN [ok |-> FALSE,
        msg |-> "Can't bind " \o name \o " to " \o effectToString(h, effect)
                  \o ": cyclical binding"]
  ELSE [ok |-> TRUE, v |-> EffectSub(name, effect)]

bindVariables(h, name, variables) ==
  IF Includes(variablesNames(variables), Name("variable", name))
  THEN [ok |-> FALSE,
        msg |-> "Can't bind " \o name \o " to " \o variablesToString(h, variables)
                  \o ": cyclical binding"]
  ELSE [ok |-> TRUE, v |-> VariableSub(name, variables)]

(***************************************************************************)
(* Bag unification (base.ts, lines 173-213 and 407-416).                   *)
(***************************************************************************)
RECURSIVE Insert(_, _)
Insert(n, sorted) ==
  IF Len(sorted) = 0 THEN <<n>>
  ELSE IF Greater(n, sorted[1]) THEN <<sorted[1]>> \o Insert(n, Tail(sorted))
  ELSE <<n>> \o sorted

RECURSIVE Sorted(_)
Sorted(names) == IF Len(names) = 0 THEN <<>> ELSE Insert(names[1], Sorted(Tail(names)))

(* array.sort(..) sorts the array in place and returns it *)
sortStrings(h, array) == [h EXCEPT ![array] = Sorted(h[array])]

Every(h, v1s, v2s) ==
  [h |-> h,
   v |-> Len(h[v1s]) = Len(h[v2s]) /\ \A index \in 1..Len(h[v1s]) : h[v1s][index] = h[v2s][index]]

(* sameVars without the two sorts *)
sameVarsAsListed(h, v1, v2) == Every(h, v1, v2)

sameVars(h, v1, v2) == Every(sortStrings(sortStrings(h, v1), v2), v1, v2)

(* .map(subs => [subs]).mapLeft(msg => buildErrorLeaf(location, msg)) *)
BindingOrLeaf(h, location, b) ==
  IF b.ok THEN Right(h, <<b.v>>) ELSE Left(h, buildErrorLeaf(location, b.msg))

SameOrError(v1, v2, location, same) ==
  IF same.v
  THEN Right(same.h, <<>>)
  ELSE Left(same.h,
            ErrorTree(location,
                      "Expected variables [" \o NamesToString(same.h[v1.vars])
                        \o "] and [" \o NamesToString(same.h[v2.vars]) \o "] to be the same",
                      <<>>))

(* unifyVariables, after the flattening, accepting two bags that are not   *)
(* both concrete and of which none is quantified                           *)
UnifyFlattenedAccepting(h, v1, v2, location) ==
  CASE v1.kind = "concrete" /\ v2.kind = "concrete" ->
         SameOrError(v1, v2, location, sameVars(h, v1.vars, v2.vars))
    [] v1.kind = "quantified" /\ v2.kind = "quantified" /\ v1.name = v2.name ->
         Right(h, <<>>)
    [] v1.kind = "quantified" /\ ~(v2.kind = "quantified" /\ v1.name = v2.name) ->
         BindingOrLeaf(h, location, bindVariables(h, v1.name, v2))
    [] v1.kind # "quantified" /\ v2.kind = "quantified" ->
         BindingOrLeaf(h, location, bindVariables(h, v2.name, v1))
    [] OTHER -> Right(h, <<>>)

UnifyFlattened(h, v1, v2, location) ==
  CASE v1.kind = "concrete" /\ v2.kind = "concrete" ->
         SameOrError(v1, v2, location, sameVars(h, v1.vars, v2.vars))
    [] v1.kind = "quantified" /\ v2.kind = "quantified" /\ v1.name = v2.name ->
         Right(h, <<>>)
    [] v1.kind = "quantified" /\ ~(v2.kind = "quantified" /\ v1.name = v2.name) ->
         BindingOrLeaf(h, location, bindVariables(h, v1.name, v2))
    [] v1.kind # "quantified" /\ v2.kind = "quantified" ->
         BindingOrLeaf(h, location, bindVariables(h, v2.name, v1))
    [] OTHER ->
         IF ValVars(h, v1) = ValVars(h, v2)
         THEN Right(h, <<>>)
         ELSE Left(h,
                   ErrorTree(location,
                             "Unification for unions of variables is not implemented",
                             <<>>))

VariablesLocation(h, v1, v2) ==
  "Trying to unify variables [" \o variablesToString(h, v1)
    \o "] and [" \o variablesToString(h, v2) \o "]"

UnifyBothFlattened(f1, f2) ==
  UnifyFlattened(f2.h, f1.v, f2.v, VariablesLocation(f2.h, f1.v, f2.v))

FlattenSecond(f1, vb) == UnifyBothFlattened(f1, flattenUnions(f1.h, vb))

unifyVariables(h, va, vb) == FlattenSecond(flattenUnions(h, va), vb)

(***************************************************************************)
(* Effect unification (base.ts, lines 90-171).                             *)
(***************************************************************************)
(* merge([readUnificationResult, updateUnificationResult]).map(s => s.flat()) *)
FlatSubs(subs, updateUnificationResult) ==
  IF ~updateUnificationResult.ok
  THEN updateUnificationResult
  ELSE Right(updateUnificationResult.h, subs \o updateUnificationResult.v)

UnifyUpdates(subs, effectsWithReadSubstitution) ==
  IF ~effectsWithReadSubstitution.ok
  THEN effectsWithReadSubstitution
  ELSE FlatSubs(subs, unifyVariables(effectsWithReadSubstitution.h,
                                     effectsWithReadSubstitution.v[1].update,
                                     effectsWithReadSubstitution.v[2].update))

UnifyAfterReads(readUnificationResult, e1, e2) ==
  IF ~readUnificationResult.ok
  THEN readUnificationResult
  ELSE UnifyUpdates(readUnificationResult.v,
                    ApplyToBoth(readUnificationResult.h, readUnificationResult.v, e1, e2))

(* unifyConcrete with the update bags unified before the read bags *)
unifyConcreteUpdatesFirst(h, location, e1, e2) ==
  UnifyAfterReads(unifyVariables(h, e1.update, e2.update), e1, e2)

unifyConcrete(h, location, e1, e2) ==
  UnifyAfterReads(unifyVariables(h, e1.read, e2.read), e1, e2)

SimplifyIfConcrete(h, e) ==
  IF e.kind = "concrete" THEN simplifyConcreteEffect(h, e) ELSE Right(h, e)

SimplifySecond(first, b) == MergeTwo(first, SimplifyIfConcrete(first.h, b))

(* mergeInMany([ea, eb].map(e => ... simplifyConcreteEffect(e) ...)) *)
SimplifyBoth(h, a, b) == SimplifySecond(SimplifyIfConcrete(h, a), b)

RECURSIVE unify(_, _, _)
RECURSIVE unifyArrows(_, _, _, _)
RECURSIVE applySubstitutionsAndUnify(_, _, _, _)
RECURSIVE UnifyParams(_, _, _, _, _)

(* newSubstitutions.chain(newSubs => compose(subs, newSubs)) *)
ComposeWith(subs, newSubstitutions) ==
  IF ~newSubstitutions.ok
  THEN newSubstitutions
  ELSE compose(newSubstitutions.h, subs, newSubstitutions.v)

(* effectsWithSubstitutions.chain(es => unify(...es)) *)
UnifyApplied(subs, effectsWithSubstitutions) ==
  IF ~effectsWithSubstitutions.ok
  THEN effectsWithSubstitutions
  ELSE ComposeWith(subs, unify(effectsWithSubstitutions.h,
                               effectsWithSubstitutions.v[1], effectsWithSubstitutions.v[2]))

applySubstitutionsAndUnify(h, subs, e1, e2) == UnifyApplied(subs, ApplyToBoth(h, subs, e1, e2))

(* e1.params.reduce(..., right([])) from position i on, result being the   *)
(* accumulator                                                             *)
UnifyParams(result, e1, e2, i, n) ==
  IF i > n \/ ~result.ok
  THEN result
  ELSE UnifyParams(applySubstitutionsAndUnify(result.h, result.v, e1.params[i], e2.params[i]),
                   e1, e2, i + 1, n)

(* paramsUnification.chain(subs => applySubstitutionsAndUnify(subs, ..)) *)
UnifyResults(paramsUnification, e1, e2) ==
  IF ~paramsUnification.ok
  THEN paramsUnification
  ELSE applySubstitutionsAndUnify(paramsUnification.h, paramsUnification.v,
                                  e1.result, e2.result)

(* unifyArrows with the two numbers of parameters exchanged in the message *)
unifyArrowsCountsExchanged(h, location, e1, e2) ==
  IF Len(e1.params) # Len(e2.params)
  THEN Left(h, ErrorTree(location,
                         "Expected " \o ToString(Len(e2.params)) \o " arguments, got "
                           \o ToString(Len(e1.params)),
                         <<>>))
  ELSE UnifyResults(UnifyParams(Right(h, <<>>), e1, e2, 1, Len(e1.params)), e1, e2)

unifyArrows(h, location, e1, e2) ==
  IF Len(e1.params) # Len(e2.params)
  THEN Left(h, ErrorTree(location,
                         "Expected " \o ToString(Len(e1.params)) \o " arguments, got "
                           \o ToString(Len(e2.params)),
                         <<>>))
  ELSE UnifyResults(UnifyParams(Right(h, <<>>), e1, e2, 1, Len(e1.params)), e1, e2)

UnifyLocation(h, a, b) ==
  "Trying to unify " \o effectToString(h, a) \o " and " \o effectToString(h, b)

UnifySimplified(h, location, e1, e2) ==
  CASE e1.kind = "arrow" /\ e2.kind = "arrow" -> unifyArrows(h, location, e1, e2)
    [] e1.kind = "concrete" /\ e2.kind = "concrete" -> unifyConcrete(h, location, e1, e2)
    [] e1.kind = "quantified" -> BindingOrLeaf(h, location, bindEffect(h, e1.name, e2))
    [] e1.kind # "quantified" /\ e2.kind = "quantified" ->
         BindingOrLeaf(h, location, bindEffect(h, e2.name, e1))
    [] OTHER -> Left(h, ErrorTree(location, "Can't unify different types of effects", <<>>))

(* simplificationResults.chain(([e1, e2]) => ...) *)
UnifyChain(location, simplificationResults) ==
  IF ~simplificationResults.ok
  THEN simplificationResults
  ELSE UnifySimplified(simplificationResults.h, location,
                       simplificationResults.v[1], simplificationResults.v[2])

(* .mapLeft(error => buildErrorTree(location, error)) *)
MapLeft(location, result) ==
  IF result.ok THEN result
  ELSE Left(result.h, buildErrorTree(location, result.many, result.err))

UnifyAt(h, a, b, location) == MapLeft(location, UnifyChain(location, SimplifyBoth(h, a, b)))

unify(h, a, b) == UnifyAt(h, a, b, UnifyLocation(h, a, b))

(***************************************************************************)
(* The parts of the state a run leaves alone: the server before any        *)
(* document, the resolver before any module.                               *)
(***************************************************************************)
NoModule == <<>>

(* no document has changed yet *)
NoDocument == [uri |-> "", version |-> 0]

(* no hover request was answered *)
NoHover == [uri |-> "", answered |-> FALSE]

ServerIdle ==
  /\ effectsByDocument = <<>>
  /\ documentsByUri = <<>>
  /\ diagnostics = <<>>
  /\ textDocument = NoDocument
  /\ tntModule = NoModule
  /\ hover = NoHover

ResolverIdle ==
  /\ table = [valueDefinitions |-> <<>>, typeDefinitions |-> <<>>]
  /\ scopeTree = <<>>
  /\ walk = <<>>
  /\ visited = 0
  /\ nameResults = <<>>
  /\ defName = ""
  /\ resolution = [kind |-> "ok"]

(* settings.prompt and settings.continuePrompt, character by character *)
settingsPrompt == <<">", ">", ">", " ">>

settingsContinuePrompt == <<".", ".", ".", " ">>

(* replInitialCompilationState() *)
replInitialCompilationState == "initial"

(* the REPL state after construction; a text is the sequence of its        *)
(* characters, a Map the function of its entries                           *)
InitialReplState ==
  [moduleHist |-> <<>>,
   defsHist |-> <<>>,
   exprHist |-> <<>>,
   vars |-> <<>>,
   lastLoadedFileAndModule |-> <<"undefined", "undefined">>,
   compilationState |-> replInitialCompilationState]

NoEvent == [kind |-> "none"]

(* the REPL after quintRepl has registered its handlers *)
ReplIdle ==
  /\ multilineText = <<>>
  /\ recyclingOwnOutput = FALSE
  /\ nOpenBraces = 0
  /\ nOpenParen = 0
  /\ nOpenComments = 0
  /\ rlPrompt = settingsPrompt
  /\ state = InitialReplState
  /\ event = NoEvent
  /\ calls = <<>>
  /\ nEvents = 0

(***************************************************************************)
(* Inputs.  Trees are generated by size, as plain values (a concrete bag   *)
(* holding its names); Load puts their arrays in the heap and gives every  *)
(* quantified bag an identity of its own.                                  *)
(*   size of a bag: its number of names; 1 for a quantified bag;           *)
(*                  1 + the sizes of the children for a union              *)
(*   size of an effect: 1 for a quantified effect; 1 + the sizes of the    *)
(*                  two bags for a concrete one; 1 + the sizes of the      *)
(*                  parameters and of the result for an arrow              *)
(***************************************************************************)
MaxTotal == 6

NamesOfLen(n) == [1..n -> Range(StateVars)]

(* the trees of size n >= 1, from the table t of the sizes below (t[k]     *)
(* holds size k): the bags and effects of size n, and the lists of bags    *)
(* and of effects of total size n - 1, which are their children            *)
GenLevel(t, n) ==
  LET lists ==
        IF n = 1 THEN {<<>>}
        ELSE UNION {{<<b>> \o l : b \in t[k].bags, l \in t[n - k].lists} : k \in 1..(n - 1)}
      bags ==
        {[kind |-> "concrete", vars |-> ns] : ns \in NamesOfLen(n)}
          \cup (IF n = 1 THEN {[kind |-> "quantified", name |-> q] : q \in BagNames}
                         ELSE {})
          \cup {[kind |-> "union", variables |-> l] : l \in {c \in lists : Len(c) >= 2}}
      bagsBelow(k) == IF k = 0 THEN {[kind |-> "concrete", vars |-> <<>>]} ELSE t[k].bags
      elists ==
        IF n = 1 THEN {<<>>}
        ELSE UNION {{<<e>> \o l : e \in t[k].effects, l \in t[n - k].elists} : k \in 1..(n - 1)}
      effects ==
        (IF n = 1 THEN {[kind |-> "quantified", name |-> q] : q \in EffectNames} ELSE {})
          \cup UNION {{[kind |-> "concrete", read |-> r, update |-> u] :
                         r \in bagsBelow(i), u \in bagsBelow(n - 1 - i)} : i \in 0..(n - 1)}
          \cup UNION {{[kind |-> "arrow", params |-> ps, result |-> r] :
                         ps \in (IF k = n - 1 THEN {<<>>} ELSE t[n - k].elists),
                         r \in t[k].effects} : k \in 1..(n - 1)}
  IN [bags |-> bags, lists |-> lists, effects |-> effects, elists |-> elists]

RECURSIVE GenTable(_)
GenTable(n) ==
  IF n = 0 THEN <<>> ELSE LET t == GenTable(n - 1) IN Append(t, GenLevel(t, n))

(* the effects and the bags of size n in the table g *)
EffectsOfSize(g, n) == g[n].effects

BagsOfSize(g, n) == IF n = 0 THEN {[kind |-> "concrete", vars |-> <<>>]} ELSE g[n].bags

RECURSIVE LoadVars(_, _, _)
RECURSIVE LoadEachVars(_, _, _)
LoadEachVars(h, r, ts) ==
  IF Len(ts) = 0 THEN [h |-> h, r |-> r, v |-> <<>>]
  ELSE LET first == LoadVars(h, r, ts[1])
           rest == LoadEachVars(first.h, first.r, Tail(ts))
       IN [h |-> rest.h, r |-> rest.r, v |-> <<first.v>> \o rest.v]

LoadVars(h, r, t) ==
  CASE t.kind = "concrete" -> [h |-> Append(h, t.vars), r |-> r, v |-> ConcreteVars(Len(h) + 1)]
    [] t.kind = "quantified" -> [h |-> h, r |-> r + 1, v |-> QuantifiedVars(t.name, r)]
    [] t.kind = "union" ->
         LET cs == LoadEachVars(h, r, t.variables)
         IN [h |-> cs.h, r |-> cs.r, v |-> UnionVars(cs.v)]

RECURSIVE LoadEffect(_, _, _)
RECURSIVE LoadEachEffect(_, _, _)
LoadEachEffect(h, r, ts) ==
  IF Len(ts) = 0 THEN [h |-> h, r |-> r, v |-> <<>>]
  ELSE LET first == LoadEffect(h, r, ts[1])
           rest == LoadEachEffect(first.h, first.r, Tail(ts))
       IN [h |-> rest.h, r |-> rest.r, v |-> <<first.v>> \o rest.v]

LoadEffect(h, r, t) ==
  CASE t.kind = "quantified" -> [h |-> h, r |-> r, v |-> Quantified(t.name)]
    [] t.kind = "concrete" ->
         LET rd == LoadVars(h, r, t.read)
             up == LoadVars(rd.h, rd.r, t.update)
         IN [h |-> up.h, r |-> up.r, v |-> Concrete(rd.v, up.v)]
    [] t.kind = "arrow" ->
         LET ps == LoadEachEffect(h, r, t.params)
             res == LoadEffect(ps.h, ps.r, t.result)
         IN [h |-> res.h, r |-> res.r, v |-> Arrow(ps.v, res.v)]

(* a result without the heap it was computed on *)
Outcome(r) == IF r.ok THEN [ok |-> TRUE, v |-> r.v] ELSE [ok |-> FALSE, err |-> r.err]

None == [ok |-> FALSE, err |-> "not computed"]

(***************************************************************************)
(* The unifier at work: two effects are unified in both orders, and each   *)
(* substitution found is applied to both.                                  *)
(***************************************************************************)
EffectPairs(g) ==
  UNION {EffectsOfSize(g, i) \X EffectsOfSize(g, j) :
           <<i, j>> \in {p \in (1..Len(g)) \X (1..Len(g)) : p[1] + p[2] <= Len(g)}}

(* the state before the first call: the two effects in a heap of their own *)
Start(ta, tb) ==
  LET la == LoadEffect(<<>>, 1, ta)
      lb == LoadEffect(la.h, la.r, tb)
  IN /\ heap = lb.h
     /\ ea = la.v
     /\ eb = lb.v
     /\ subsA = <<>>
     /\ subsB = <<>>
     /\ bag = ConcreteVars(0)
     /\ bagA = ConcreteVars(0)
     /\ bagB = ConcreteVars(0)
     /\ ServerIdle
     /\ ResolverIdle
     /\ ReplIdle
     /\ pc = "start"
     /\ out = None
     /\ out2 = None
     /\ applied = <<>>
     /\ applied2 = <<>>

Init == \E p \in EffectPairs(GenTable(MaxTotal)) : Start(p[1], p[2])

(* the call returns r: its value or error is kept, the heap is as the call *)
(* left it                                                                 *)
Returns(r) == out' = Outcome(r) /\ heap' = r.h

ReturnsSwapped(r) == out2' = Outcome(r) /\ heap' = r.h

BothOutcomes(ra, rb) == [h |-> rb.h, v |-> <<Outcome(ra), Outcome(rb)>>]

ApplyOther(ra, subs, b) == BothOutcomes(ra, applySubstitution(ra.h, subs, b))

(* both applications of a substitution, one after the other *)
ApplyBoth(h, subs, a, b) == ApplyOther(applySubstitution(h, subs, a), subs, b)

AppliedBoth(r) == applied' = r.v /\ heap' = r.h

AppliedBothSwapped(r) == applied2' = r.v /\ heap' = r.h

Unify ==
  /\ pc = "start"
  /\ Returns(unify(heap, ea, eb))
  /\ pc' = "unified"
  /\ UNCHANGED <<serverVars, resolverVars, replVars>>
  /\ UNCHANGED <<ea, eb, subsA, subsB, bag, bagA, bagB, out2, applied, applied2>>

Apply ==
  /\ pc = "unified"
  /\ out.ok
  /\ AppliedBoth(ApplyBoth(heap, out.v, ea, eb))
  /\ pc' = "applied"
  /\ UNCHANGED <<serverVars, resolverVars, replVars>>
  /\ UNCHANGED <<ea, eb, subsA, subsB, bag, bagA, bagB, out, out2, applied2>>

UnifySwapped ==
  /\ pc = "applied" \/ (pc = "unified" /\ ~out.ok)
  /\ ReturnsSwapped(unify(heap, eb, ea))
  /\ pc' = "swapped"
  /\ UNCHANGED <<serverVars, resolverVars, replVars>>
  /\ UNCHANGED <<ea, eb, subsA, subsB, bag, bagA, bagB, out, applied, applied2>>

ApplySwapped ==
  /\ pc = "swapped"
  /\ out2.ok
  /\ AppliedBothSwapped(ApplyBoth(heap, out2.v, ea, eb))
  /\ pc' = "done"
  /\ UNCHANGED <<serverVars, resolverVars, replVars>>
  /\ UNCHANGED <<ea, eb, subsA, subsB, bag, bagA, bagB, out, out2, applied>>

Next == Unify \/ Apply \/ UnifySwapped \/ ApplySwapped

Spec == Init /\ [][Next]_vars

(***************************************************************************)
(* The unifier on the pairs of effects of total size up to MaxPair.        *)
(***************************************************************************)
MaxPair == 5

InitPairs == \E p \in EffectPairs(GenTable(MaxPair)) : Start(p[1], p[2])

SpecPairs == InitPairs /\ [][Next]_vars

(***************************************************************************)
(* Properties of the unifier.                                              *)
(***************************************************************************)
(* C1 (unifier soundness): when unify(a, b) returns a substitution s,      *)
(* applySubstitution(s, a) and applySubstitution(s, b) both succeed and    *)
(* give structurally equal effects.                                        *)
C1_UnifierSoundness ==
  pc = "applied" =>
    /\ applied[1].ok
    /\ applied[2].ok
    /\ ValEffect(heap, applied[1].v) = ValEffect(heap, applied[2].v)

RECURSIVE MentionsEffectName(_, _)
MentionsEffectName(e, n) ==
  CASE e.kind = "quantified" -> e.name = n
    [] e.kind = "concrete" -> FALSE
    [] e.kind = "arrow" ->
         \/ \E i \in 1..Len(e.params) : MentionsEffectName(e.params[i], n)
         \/ MentionsEffectName(e.result, n)

CyclicalBinding(n, e) ==
  "Can't bind " \o n \o " to " \o effectToString(heap, e) \o ": cyclical binding"

(* C2 (occurs check for effects): unifying the quantified effect n with an *)
(* arrow that mentions n at any depth is an error whose message is         *)
(* "Can't bind n to <arrow>: cyclical binding", never a substitution.      *)
C2_OccursCheckEffects ==
  pc = "unified" =>
    /\ (ea.kind = "quantified" /\ eb.kind = "arrow" /\ MentionsEffectName(eb, ea.name))
         => (~out.ok /\ out.err.message = CyclicalBinding(ea.name, eb))
    /\ (eb.kind = "quantified" /\ ea.kind = "arrow" /\ MentionsEffectName(ea, eb.name))
         => (~out.ok /\ out.err.message = CyclicalBinding(eb.name, ea))

RECURSIVE MentionsBagName(_, _)
MentionsBagName(v, n) ==
  CASE v.kind = "quantified" -> v.name = n
    [] v.kind = "concrete" -> FALSE
    [] v.kind = "union" -> \E i \in 1..Len(v.variables) : MentionsBagName(v.variables[i], n)

(* C3 (no cyclic bindings): no substitution list returned by unify holds a *)
(* bag binding n |-> V where V mentions the quantified bag n.              *)
C3_NoCyclicBagBinding ==
  (pc = "unified" /\ out.ok) =>
    \A i \in 1..Len(out.v) :
      out.v[i].kind = "variable" => ~MentionsBagName(out.v[i].value, out.v[i].name)

(* C10 (symmetry), as stated: unify(a, b) succeeds iff unify(b, a) does,   *)
(* and when both succeed the two substitutions give the same results when  *)
(* applied to a and to b.                                                  *)
C10_SymmetryAsStated ==
  /\ pc \in {"swapped", "done"} => (out.ok <=> out2.ok)
  /\ pc = "done" =>
       \A i \in 1..2 :
         /\ applied[i].ok <=> applied2[i].ok
         /\ applied[i].ok => ValEffect(heap, applied[i].v) = ValEffect(heap, applied2[i].v)

(* C12 (inputs are not modified): when unify(a, b) returns, with a         *)
(* substitution or with an error, a and b are structurally what they were  *)
(* before the call, the order of the names in every concrete bag included. *)
C12_InputsUnmodified ==
  [][(Unify \/ UnifySwapped) =>
       /\ ValEffect(heap', ea') = ValEffect(heap, ea)
       /\ ValEffect(heap', eb') = ValEffect(heap, eb)]_vars

(* the effect Read[n], with an empty update bag, and the effect Update[n],  *)
(* with an empty read bag                                                  *)
IsRead(e, n) ==
  ValEffect(heap, e) = Concrete([kind |-> "concrete", vars |-> <<n>>],
                                [kind |-> "concrete", vars |-> <<>>])

IsUpdate(e, n) ==
  ValEffect(heap, e) = Concrete([kind |-> "concrete", vars |-> <<>>],
                                [kind |-> "concrete", vars |-> <<n>>])

(* the error of two concrete bags that do not hold the same names *)
BagsDiffer(names1, names2) ==
  ErrorTree("Trying to unify variables [" \o Join([i \in 1..Len(names1) |-> "'" \o names1[i] \o "'"], ", ")
              \o "] and [" \o Join([i \in 1..Len(names2) |-> "'" \o names2[i] \o "'"], ", ") \o "]",
            "Expected variables [" \o NamesToString(names1) \o "] and ["
              \o NamesToString(names2) \o "] to be the same",
            <<>>)

(* C13, as stated: unifying Read[n] with Update[n] fails, and the error    *)
(* reported is the one of the update bags, [] against [n].                 *)
C13_UpdateBagError ==
  \A n \in Range(StateVars) :
    (pc = "unified" /\ IsRead(ea, n) /\ IsUpdate(eb, n)) =>
      /\ ~out.ok
      /\ out.err.children = <<BagsDiffer(<<>>, <<n>>)>>

(* C13, amended: unifying Read[n] with Update[n] fails, and the error      *)
(* reported is the one of the read bags, [n] against []: it is the only    *)
(* child of the error at the location of the two effects.                  *)
C13_ReadBagError ==
  \A n \in Range(StateVars) :
    (pc = "unified" /\ IsRead(ea, n) /\ IsUpdate(eb, n)) =>
      /\ ~out.ok
      /\ out.err.location = "Trying to unify Read['" \o n \o "'] and Update['" \o n \o "']"
      /\ out.err.message = NoMessage
      /\ out.err.children = <<BagsDiffer(<<n>>, <<>>)>>

C13_Witness ==
  pc = "unified" /\ IsRead(ea, "x") /\ IsUpdate(eb, "x") /\ ~out.ok

(* the error of two arrows e1 and e2 that take different numbers of         *)
(* parameters: a leaf at the location of the call                          *)
ArityError(e1, e2) ==
  ErrorTree("Trying to unify " \o effectToString(heap, e1) \o " and " \o effectToString(heap, e2),
            "Expected " \o ToString(Len(e1.params)) \o " arguments, got "
              \o ToString(Len(e2.params)),
            <<>>)

ArityMismatch(e1, e2) ==
  e1.kind = "arrow" /\ e2.kind = "arrow" /\ Len(e1.params) # Len(e2.params)

(* C14 (arity mismatch): unifying two arrows with N and M parameters,      *)
(* N # M, fails with the message "Expected N arguments, got M", N being    *)
(* the number of parameters of the first argument, at the location of the  *)
(* call and with no child: no parameter and no result is unified.          *)
C14_ArityMismatch ==
  /\ (pc = "unified" /\ ArityMismatch(ea, eb)) => (~out.ok /\ out.err = ArityError(ea, eb))
  /\ (pc = "swapped" /\ ArityMismatch(eb, ea)) => (~out2.ok /\ out2.err = ArityError(eb, ea))

C14_Witness ==
  /\ pc = "swapped"
  /\ ArityMismatch(eb, ea)
  /\ Len(ea.params) = 0
  /\ Len(eb.params) = 1
  /\ out.err.message = "Expected 0 arguments, got 1"
  /\ out2.err.message = "Expected 1 arguments, got 0"

(* the error raised inside unify(a, b), before unify puts it at its own    *)
(* location: the result of the simplifications and of what follows them    *)
RaisedInside(a, b) == UnifyChain(UnifyLocation(heap, a, b), SimplifyBoth(heap, a, b))

(* what C17 says unify(a, b) returns when inner is the error raised inside *)
Deduplicated(a, b, inner) ==
  IF ~inner.many /\ inner.err.location = UnifyLocation(heap, a, b)
  THEN inner.err
  ELSE ErrorTree(UnifyLocation(heap, a, b), NoMessage,
                 IF inner.many THEN inner.err ELSE <<inner.err>>)

(* C17 (error locations are not repeated): when the error raised inside    *)
(* unify is one error that carries the location of the call, unify returns *)
(* that error itself; in every other case it returns a node at the         *)
(* location of the call, without a message, whose children are the inner   *)
(* error or errors.                                                        *)
C17_LocationDeduplication ==
  [][/\ (Unify /\ ~out'.ok) => out'.err = Deduplicated(ea, eb, RaisedInside(ea, eb))
     /\ (UnifySwapped /\ ~out2'.ok) => out2'.err = Deduplicated(eb, ea, RaisedInside(eb, ea))]_vars

(* unify returned an error raised at its own location as it was *)
C17_Witness ==
  /\ pc = "unified"
  /\ ~out.ok
  /\ out.err.message = "Can't unify different types of effects"
  /\ out.err.children = <<>>
  /\ out.err.location = "Trying to unify " \o effectToString(heap, ea) \o " and " \o effectToString(heap, eb)

(***************************************************************************)
(* The unifier on arrows: both effects are arrows of the same number of    *)
(* parameters (1..MaxParams), their parameters and results drawn from the  *)
(* effects of size 1 and one update.                                       *)
(***************************************************************************)
MaxParams == 2

ArrowAtoms ==
  EffectsOfSize(GenTable(1), 1)
    \cup {[kind |-> "concrete", read |-> [kind |-> "concrete", vars |-> <<>>],
           update |-> [kind |-> "concrete", vars |-> <<StateVars[1]>>]]}

ArrowsOfArity(n) ==
  {[kind |-> "arrow", params |-> ps, result |-> r] : ps \in [1..n -> ArrowAtoms], r \in ArrowAtoms}

InitArrows ==
  \E n \in 1..MaxParams : \E ta \in ArrowsOfArity(n), tb \in ArrowsOfArity(n) : Start(ta, tb)

SpecArrows == InitArrows /\ [][Next]_vars

(* the parameters of an arrow, then its result *)
Components(e) == e.params \o <<e.result>>

SameQuantified(e1, e2) == e1.kind = "quantified" /\ e2.kind = "quantified" /\ e1.name = e2.name

(* C22 (arrows, threaded bindings): when one quantified effect name stands  *)
(* at several parameter or result positions of an arrow, unify succeeds     *)
(* only if the components of the other arrow at these positions unify with  *)
(* each other: two concrete components there are then the same effect.      *)
C22_ThreadedBindings ==
  (pc = "unified" /\ out.ok /\ ea.kind = "arrow" /\ eb.kind = "arrow") =>
    \A i, j \in 1..Len(Components(ea)) :
      (/\ SameQuantified(Components(ea)[i], Components(ea)[j])
       /\ Components(eb)[i].kind = "concrete"
       /\ Components(eb)[j].kind = "concrete")
        => ValEffect(heap, Components(eb)[i]) = ValEffect(heap, Components(eb)[j])

(***************************************************************************)
(* Substitution lists as inputs.  The size of a binding is 1 + the size of *)
(* its value; the size of a list is the sum of the sizes of its bindings.  *)
(***************************************************************************)
SubsLevel(g, t, m) ==
  LET bindings ==
        {[kind |-> "variable", name |-> n, value |-> b] :
           n \in BagNames, b \in BagsOfSize(g, m - 1)}
          \cup (IF m = 1 THEN {}
                ELSE {[kind |-> "effect", name |-> n, value |-> e] :
                        n \in EffectNames, e \in EffectsOfSize(g, m - 1)})
      lists ==
        {<<b>> : b \in bindings}
          \cup UNION {{<<b>> \o l : b \in t[k].bindings, l \in t[m - k].lists} :
                        k \in 1..(m - 1)}
  IN [bindings |-> bindings, lists |-> lists]

RECURSIVE SubsTable(_, _)
SubsTable(g, m) ==
  IF m = 0 THEN <<>> ELSE LET t == SubsTable(g, m - 1) IN Append(t, SubsLevel(g, t, m))

MaxSubs == 5

(* the lists of size m in the table sg *)
SubsOfSize(sg, m) == IF m = 0 THEN {<<>>} ELSE sg[m].lists

RECURSIVE LoadSubs(_, _, _)
LoadSubs(h, r, ts) ==
  IF Len(ts) = 0 THEN [h |-> h, r |-> r, v |-> <<>>]
  ELSE LET value == IF ts[1].kind = "effect" THEN LoadEffect(h, r, ts[1].value)
                                             ELSE LoadVars(h, r, ts[1].value)
           rest == LoadSubs(value.h, value.r, Tail(ts))
       IN [h |-> rest.h, r |-> rest.r,
           v |-> <<[kind |-> ts[1].kind, name |-> ts[1].name, value |-> value.v]>> \o rest.v]

(* the state before the first call: two substitution lists and an effect   *)
StartSubs(t1, t2, te) ==
  LET l1 == LoadSubs(<<>>, 1, t1)
      l2 == LoadSubs(l1.h, l1.r, t2)
      le == LoadEffect(l2.h, l2.r, te)
  IN /\ heap = le.h
     /\ ea = le.v
     /\ eb = le.v
     /\ subsA = l1.v
     /\ subsB = l2.v
     /\ bag = ConcreteVars(0)
     /\ bagA = ConcreteVars(0)
     /\ bagB = ConcreteVars(0)
     /\ ServerIdle
     /\ ResolverIdle
     /\ ReplIdle
     /\ pc = "start"
     /\ out = None
     /\ out2 = None
     /\ applied = <<>>
     /\ applied2 = <<>>

(***************************************************************************)
(* Applying a substitution list to an effect.                              *)
(***************************************************************************)
MaxApplied == 4

(* a list of size up to MaxSubs and an effect of size up to MaxApplied,    *)
(* the largest list going with the effects of size 1 and 2                 *)
ApplyInputs(g, sg) ==
  \E i \in 0..MaxSubs : \E j \in 1..MaxApplied :
    /\ i + j <= MaxSubs + 2
    /\ \E ts \in SubsOfSize(sg, i), te \in EffectsOfSize(g, j) : StartSubs(ts, <<>>, te)

InitApplyWith(g) == ApplyInputs(g, SubsTable(g, MaxSubs))

InitApply == InitApplyWith(GenTable(MaxTotal))

Substitute ==
  /\ pc = "start"
  /\ Returns(applySubstitution(heap, subsA, ea))
  /\ pc' = "substituted"
  /\ UNCHANGED <<serverVars, resolverVars, replVars>>
  /\ UNCHANGED <<ea, eb, subsA, subsB, bag, bagA, bagB, out2, applied, applied2>>

NextApply == Substitute

SpecApply == InitApply /\ [][NextApply]_vars

(***************************************************************************)
(* Properties of applySubstitution.                                        *)
(***************************************************************************)
RECURSIVE ConcreteEffectsIn(_)
ConcreteEffectsIn(e) ==
  CASE e.kind = "concrete" -> {e}
    [] e.kind = "quantified" -> {}
    [] e.kind = "arrow" ->
         ConcreteEffectsIn(e.result)
           \cup UNION {ConcreteEffectsIn(e.params[i]) : i \in 1..Len(e.params)}

NoUnionInUnion(v) ==
  v.kind = "union" => \A i \in 1..Len(v.variables) : v.variables[i].kind # "union"

RECURSIVE NamesIn(_, _)
NamesIn(h, v) ==
  CASE v.kind = "concrete" -> h[v.vars]
    [] v.kind = "quantified" -> <<>>
    [] v.kind = "union" -> Flat([i \in 1..Len(v.variables) |-> NamesIn(h, v.variables[i])])

NoNameTwice(names) == \A n \in Range(names) : Count(names, n) = 1

SimplifiedForm(h, c) ==
  /\ NoUnionInUnion(c.read)
  /\ NoUnionInUnion(c.update)
  /\ NoNameTwice(NamesIn(h, c.read))
  /\ NoNameTwice(NamesIn(h, c.update))

(* C6 (simplified form): every concrete effect occurring anywhere in an    *)
(* effect that applySubstitution returns has a read bag and an update bag  *)
(* with no union inside a union and no state variable named twice.         *)
C6_SimplifiedForm ==
  (pc = "substituted" /\ out.ok) =>
    \A c \in ConcreteEffectsIn(out.v) : SimplifiedForm(heap, c)

(* the first bag binding of n in subs, 0 when subs has none *)
BagBinding(subs, n) ==
  LET is(i) == subs[i].kind = "variable" /\ subs[i].name = n
  IN IF \E i \in 1..Len(subs) : is(i)
     THEN CHOOSE i \in 1..Len(subs) : is(i) /\ \A j \in 1..(i - 1) : ~is(j)
     ELSE 0

(* the concrete names reachable in a bag once every quantified bag with a  *)
(* bag binding is replaced by the value bound to it                        *)
RECURSIVE NamesAfter(_, _, _)
NamesAfter(h, subs, v) ==
  CASE v.kind = "concrete" -> h[v.vars]
    [] v.kind = "quantified" ->
         LET b == BagBinding(subs, v.name)
         IN IF b = 0 THEN <<>> ELSE NamesIn(h, subs[b].value)
    [] v.kind = "union" ->
         Flat([i \in 1..Len(v.variables) |-> NamesAfter(h, subs, v.variables[i])])

(* C7 (duplicate updates): applying a substitution to a concrete effect    *)
(* fails iff, with the bag bindings substituted, a state variable occurs   *)
(* more than once among the concrete names of the update bag; the error    *)
(* is a leaf "Multiple updates of variable(s): " with each such name once. *)
C7_DuplicateUpdateDetection ==
  (pc = "substituted" /\ ea.kind = "concrete") =>
    LET names == NamesAfter(heap, subsA, ea.update)
        repeated == Dedup(SelectSeq(names, LAMBDA n : Count(names, n) > 1))
    IN /\ ~out.ok <=> Len(repeated) > 0
       /\ ~out.ok =>
            /\ out.err.message = "Multiple updates of variable(s): " \o Join(repeated, ",")
            /\ out.err.children = <<>>

(* the first effect binding of n in subs, 0 when subs has none *)
EffectBinding(subs, n) ==
  LET is(i) == subs[i].kind = "effect" /\ subs[i].name = n
  IN IF \E i \in 1..Len(subs) : is(i)
     THEN CHOOSE i \in 1..Len(subs) : is(i) /\ \A j \in 1..(i - 1) : ~is(j)
     ELSE 0

(* C11 (lookup of a quantified effect): applying a substitution list to    *)
(* the quantified effect n returns the value of the list's effect binding  *)
(* of n when it has one, whatever other bindings it holds, and returns the *)
(* quantified effect unchanged when it has none.                           *)
C11_EffectLookup ==
  (pc = "substituted" /\ ea.kind = "quantified") =>
    /\ out.ok
    /\ IF EffectBinding(subsA, ea.name) # 0
       THEN ValEffect(heap, out.v) = ValEffect(heap, subsA[EffectBinding(subsA, ea.name)].value)
       ELSE out.v = ea

(***************************************************************************)
(* Composing two substitution lists, and applying the composition and its  *)
(* two halves to an effect.                                                *)
(***************************************************************************)
ComposeInputs(g, sg) ==
  \E i \in 0..(MaxTotal - 2) : \E j \in 0..(MaxTotal - 2 - i) : \E k \in 1..(MaxTotal - 1 - i - j) :
    \E t1 \in SubsOfSize(sg, i), t2 \in SubsOfSize(sg, j), te \in EffectsOfSize(g, k) : StartSubs(t1, t2, te)

InitComposeWith(g) == ComposeInputs(g, SubsTable(g, MaxSubs))

InitCompose == InitComposeWith(GenTable(MaxTotal))

Compose ==
  /\ pc = "start"
  /\ Returns(compose(heap, subsA, subsB))
  /\ pc' = "composed"
  /\ UNCHANGED <<serverVars, resolverVars, replVars>>
  /\ UNCHANGED <<ea, eb, subsA, subsB, bag, bagA, bagB, out2, applied, applied2>>

Applied(r) == applied' = <<Outcome(r)>> /\ heap' = r.h

AppliedInSequence(r) == applied2' = <<Outcome(r)>> /\ heap' = r.h

ThenApply(r1, subs) == IF r1.ok THEN applySubstitution(r1.h, subs, r1.v) ELSE r1

(* applySubstitution(compose(s1, s2), e) *)
ApplyComposed ==
  /\ pc = "composed"
  /\ out.ok
  /\ Applied(applySubstitution(heap, out.v, ea))
  /\ pc' = "appliedComposed"
  /\ UNCHANGED <<serverVars, resolverVars, replVars>>
  /\ UNCHANGED <<ea, eb, subsA, subsB, bag, bagA, bagB, out, out2, applied2>>

(* applySubstitution(s2', applySubstitution(s1, e)), s2' being the part of *)
(* the composition that follows s1                                         *)
ApplyInSequence ==
  /\ pc = "appliedComposed"
  /\ AppliedInSequence(ThenApply(applySubstitution(heap, subsA, ea),
                                 SubSeq(out.v, Len(subsA) + 1, Len(out.v))))
  /\ pc' = "done"
  /\ UNCHANGED <<serverVars, resolverVars, replVars>>
  /\ UNCHANGED <<ea, eb, subsA, subsB, bag, bagA, bagB, out, out2, applied>>

NextCompose == Compose \/ ApplyComposed \/ ApplyInSequence

SpecCompose == InitCompose /\ [][NextCompose]_vars

(***************************************************************************)
(* Properties of compose.                                                  *)
(***************************************************************************)
(* C4 (composition law): when both applications succeed,                   *)
(* applySubstitution(compose(s1, s2), e) equals                            *)
(* applySubstitution(s2', applySubstitution(s1, e)).                       *)
C4_CompositionLaw ==
  (pc = "done" /\ applied[1].ok /\ applied2[1].ok) =>
    ValEffect(heap, applied[1].v) = ValEffect(heap, applied2[1].v)

(* a list binds every name at most once per kind *)
Valid(subs) ==
  \A i, j \in 1..Len(subs) :
    (subs[i].kind = subs[j].kind /\ subs[i].name = subs[j].name) => i = j

(* C5 (validity preserved): compose(s1, s2) of two lists that bind every   *)
(* name at most once per kind binds every name at most once per kind, and  *)
(* so does every list unify returns for two arrows.                        *)
C5_ValidityPreserved ==
  /\ (pc = "composed" /\ out.ok /\ Valid(subsA) /\ Valid(subsB)) => Valid(out.v)
  /\ (pc = "unified" /\ out.ok /\ ea.kind = "arrow" /\ eb.kind = "arrow") => Valid(out.v)

(***************************************************************************)
(* Flattening and simplifying bags of any shape: unions nest to any depth  *)
(* and may have no child or a single child.  The size of a concrete bag is *)
(* the number of its names (1 when empty), a quantified bag has size 1, a  *)
(* union 1 + the sizes of its children.                                    *)
(***************************************************************************)
MaxBag == 5

AnyBagLevel(t, n) ==
  LET lists ==
        IF n = 1 THEN {<<>>}
        ELSE UNION {{<<b>> \o l : b \in t[k].bags, l \in t[n - k].lists} : k \in 1..(n - 1)}
      bags ==
        {[kind |-> "concrete", vars |-> ns] : ns \in NamesOfLen(n)}
          \cup (IF n = 1
                THEN {[kind |-> "concrete", vars |-> <<>>]}
                       \cup {[kind |-> "quantified", name |-> q] : q \in BagNames}
                ELSE {})
          \cup {[kind |-> "union", variables |-> l] : l \in lists}
  IN [bags |-> bags, lists |-> lists]

RECURSIVE AnyBagTable(_)
AnyBagTable(n) ==
  IF n = 0 THEN <<>> ELSE LET t == AnyBagTable(n - 1) IN Append(t, AnyBagLevel(t, n))

AnyBags(t) == UNION {t[n].bags : n \in 1..Len(t)}

(* the state before the first call: a bag, and the effect that reads it or *)
(* the effect that updates it                                              *)
StartBag(tb, side) ==
  LET lb == LoadVars(<<>>, 1, tb)
      le == LoadVars(lb.h, lb.r, tb)
      empty == Alloc(le.h, <<>>)
  IN /\ heap = empty.h
     /\ bag = lb.v
     /\ bagA = ConcreteVars(0)
     /\ bagB = ConcreteVars(0)
     /\ ServerIdle
     /\ ResolverIdle
     /\ ReplIdle
     /\ ea = IF side = "read" THEN Concrete(le.v, ConcreteVars(empty.v))
                              ELSE Concrete(ConcreteVars(empty.v), le.v)
     /\ eb = ea
     /\ subsA = <<>>
     /\ subsB = <<>>
     /\ pc = "start"
     /\ out = None
     /\ out2 = None
     /\ applied = <<>>
     /\ applied2 = <<>>

InitBags == \E tb \in AnyBags(AnyBagTable(MaxBag)), side \in {"read", "update"} : StartBag(tb, side)

ReturnsAgain(r) == out2' = Outcome(r) /\ heap' = r.h

Flattened(r) == applied' = <<[ok |-> TRUE, v |-> r.v]>> /\ heap' = r.h

Flatten ==
  /\ pc = "start"
  /\ Flattened(flattenUnions(heap, bag))
  /\ pc' = "flattened"
  /\ UNCHANGED <<serverVars, resolverVars, replVars>>
  /\ UNCHANGED <<ea, eb, subsA, subsB, bag, bagA, bagB, out, out2, applied2>>

Simplify ==
  /\ pc = "flattened"
  /\ Returns(simplifyConcreteEffect(heap, ea))
  /\ pc' = "simplified"
  /\ UNCHANGED <<serverVars, resolverVars, replVars>>
  /\ UNCHANGED <<ea, eb, subsA, subsB, bag, bagA, bagB, out2, applied, applied2>>

SimplifyAgain ==
  /\ pc = "simplified"
  /\ out.ok
  /\ ReturnsAgain(simplifyConcreteEffect(heap, out.v))
  /\ pc' = "resimplified"
  /\ UNCHANGED <<serverVars, resolverVars, replVars>>
  /\ UNCHANGED <<ea, eb, subsA, subsB, bag, bagA, bagB, out, applied, applied2>>

NextBags == Flatten \/ Simplify \/ SimplifyAgain

SpecBags == InitBags /\ [][NextBags]_vars

(***************************************************************************)
(* Properties of the canonical forms.                                      *)
(***************************************************************************)
(* C8 (idempotence of simplification): when simplifying a concrete effect  *)
(* succeeds, simplifying the result succeeds too and gives a structurally  *)
(* equal effect.                                                           *)
C8_SimplifyIdempotent ==
  pc = "resimplified" =>
    /\ out2.ok
    /\ ValEffect(heap, out2.v) = ValEffect(heap, out.v)

FlatForm(v) ==
  \/ v.kind \in {"concrete", "quantified"}
  \/ /\ v.kind = "union"
     /\ Len(v.variables) >= 2
     /\ \A i \in 1..Len(v.variables) : v.variables[i].kind # "union"
     /\ Cardinality({i \in 1..Len(v.variables) : v.variables[i].kind = "concrete"}) <= 1

(* C9 (flattening invariant): flattenUnions(v) is a concrete bag, a        *)
(* quantified bag, or a union of at least two children, none of them a     *)
(* union and at most one of them concrete.                                 *)
C9_FlatteningInvariant ==
  pc = "flattened" => FlatForm(applied[1].v)

(***************************************************************************)
(* Unifying two bags: the pairs of bags of total size up to MaxVars.       *)
(***************************************************************************)
MaxVars == 6

BagPairs(g) ==
  UNION {BagsOfSize(g, i) \X BagsOfSize(g, j) :
           <<i, j>> \in {p \in (0..Len(g)) \X (0..Len(g)) : p[1] + p[2] <= Len(g)}}

StartVariables(ta, tb) ==
  LET la == LoadVars(<<>>, 1, ta)
      lb == LoadVars(la.h, la.r, tb)
  IN /\ heap = lb.h
     /\ bagA = la.v
     /\ bagB = lb.v
     /\ ServerIdle
     /\ ResolverIdle
     /\ ReplIdle
     /\ bag = ConcreteVars(0)
     /\ ea = Quantified("e")
     /\ eb = Quantified("e")
     /\ subsA = <<>>
     /\ subsB = <<>>
     /\ pc = "start"
     /\ out = None
     /\ out2 = None
     /\ applied = <<>>
     /\ applied2 = <<>>

InitVariables == \E p \in BagPairs(GenTable(MaxVars)) : StartVariables(p[1], p[2])

(* the two bags as flattenUnions gives them, kept for the caller to see *)
BothFlattened(f1, f2) == [h |-> f2.h, v |-> <<f1.v, f2.v>>]

FlattenOther(f1, v2) == BothFlattened(f1, flattenUnions(f1.h, v2))

FlattenBoth(h, v1, v2) == FlattenOther(flattenUnions(h, v1), v2)

FlattenVariables ==
  /\ pc = "start"
  /\ AppliedBoth(FlattenBoth(heap, bagA, bagB))
  /\ pc' = "flattenedBoth"
  /\ UNCHANGED <<serverVars, resolverVars, replVars>>
  /\ UNCHANGED <<ea, eb, subsA, subsB, bag, bagA, bagB, out, out2, applied2>>

UnifyVariables ==
  /\ pc = "flattenedBoth"
  /\ Returns(unifyVariables(heap, bagA, bagB))
  /\ pc' = "unifiedVariables"
  /\ UNCHANGED <<serverVars, resolverVars, replVars>>
  /\ UNCHANGED <<ea, eb, subsA, subsB, bag, bagA, bagB, out2, applied, applied2>>

NextVariables == FlattenVariables \/ UnifyVariables

SpecVariables == InitVariables /\ [][NextVariables]_vars

(***************************************************************************)
(* Properties of unifyVariables.                                           *)
(***************************************************************************)
SameNames(names1, names2) ==
  \A n \in Range(StateVars) : Count(names1, n) = Count(names2, n)

(* the names in ascending order, each as often as it is listed *)
Ascending(names) ==
  Flat([i \in 1..Len(StateVars) |-> SelectSeq(names, LAMBDA n : n = StateVars[i])])

(* C15 (concrete bags): unifying two concrete bags succeeds, with the      *)
(* empty substitution, iff both hold the same names with the same          *)
(* multiplicities, in whatever order they are listed; otherwise it fails   *)
(* with "Expected variables [X] and [Y] to be the same", X and Y being the *)
(* names of the two bags in ascending order.                               *)
C15_ConcreteBags ==
  (pc = "unifiedVariables" /\ bagA.kind = "concrete" /\ bagB.kind = "concrete") =>
    /\ out.ok <=> SameNames(heap[bagA.vars], heap[bagB.vars])
    /\ out.ok => out.v = <<>>
    /\ ~out.ok =>
         /\ out.err.message =
              "Expected variables [" \o NamesToString(Ascending(heap[bagA.vars]))
                \o "] and [" \o NamesToString(Ascending(heap[bagB.vars])) \o "] to be the same"
         /\ out.err.children = <<>>

(* two bags that hold the same names, as many in all, and differ in how    *)
(* often each is listed, are not unified                                   *)
C15_Witness ==
  /\ pc = "unifiedVariables"
  /\ bagA.kind = "concrete"
  /\ bagB.kind = "concrete"
  /\ Range(heap[bagA.vars]) = Range(heap[bagB.vars])
  /\ Len(heap[bagA.vars]) = Len(heap[bagB.vars])
  /\ ~out.ok

NotImplemented == "Unification for unions of variables is not implemented"

(* after the flattening neither bag is quantified, at least one is a union *)
(* and the two are not structurally identical                              *)
UnionsDiffer(v1, v2) ==
  /\ v1.kind # "quantified"
  /\ v2.kind # "quantified"
  /\ v1.kind = "union" \/ v2.kind = "union"
  /\ ValVars(heap, v1) # ValVars(heap, v2)

(* the same children, in another order *)
Reordered(v1, v2) ==
  /\ v1.kind = "union"
  /\ v2.kind = "union"
  /\ Len(v1.variables) = Len(v2.variables)
  /\ \A c \in Range(ValVars(heap, v1).variables) :
       Count(ValVars(heap, v1).variables, c) = Count(ValVars(heap, v2).variables, c)
  /\ ValVars(heap, v1) # ValVars(heap, v2)

(* C16 (unions are not unified): when, after the flattening, neither bag   *)
(* is quantified, at least one is a union and the two are not structurally *)
(* identical, unifyVariables fails with a leaf "Unification for unions of  *)
(* variables is not implemented"; two unions of the same children in       *)
(* different orders are such a case.                                       *)
C16_UnionsNotUnified ==
  (pc = "unifiedVariables" /\ UnionsDiffer(applied[1], applied[2])) =>
    /\ ~out.ok
    /\ out.err.message = NotImplemented
    /\ out.err.children = <<>>
    /\ out.err.location =
         "Trying to unify variables [" \o variablesToString(heap, applied[1])
           \o "] and [" \o variablesToString(heap, applied[2]) \o "]"

C16_Witness ==
  /\ pc = "unifiedVariables"
  /\ Reordered(applied[1], applied[2])
  /\ ~out.ok
  /\ out.err.message = NotImplemented

(***************************************************************************)
(* The language server (server.ts): a document changes, it is parsed, and  *)
(* checkEffects infers the effects of its module, keeps them for the hover *)
(* and sends the diagnostics.                                              *)
(***************************************************************************)
MaxNodes == 2

MaxChanges == 3

Uris == {"a", "b"}

(* the unifier at rest *)
UnifierIdle ==
  /\ heap = <<>>
  /\ ea = Quantified("e")
  /\ eb = Quantified("e")
  /\ subsA = <<>>
  /\ subsB = <<>>
  /\ bag = ConcreteVars(0)
  /\ bagA = ConcreteVars(0)
  /\ bagB = ConcreteVars(0)
  /\ out = None
  /\ out2 = None
  /\ applied = <<>>
  /\ applied2 = <<>>

(* what the inference finds at a node: an effect, or the error of a        *)
(* unification that failed                                                 *)
NodeError ==
  unify(<<>>, Arrow(<<>>, Quantified("e")), Arrow(<<Quantified("e")>>, Quantified("e"))).err

NodeOutcomes ==
  {[ok |-> TRUE, effect |-> Quantified("e")],
   [ok |-> TRUE, effect |-> Arrow(<<>>, Quantified("e"))],
   [ok |-> FALSE, error |-> NodeError]}

(* the modules: the outcome of the inference at each of the nodes 1..n *)
Modules == UNION {[1..n -> NodeOutcomes] : n \in 1..MaxNodes}

Inferred(module) == {id \in DOMAIN module : module[id].ok}

Failed(module) == {id \in DOMAIN module : ~module[id].ok}

(* inferEffects, as checkEffects uses its result: the errors by node when  *)
(* a node failed, else the effects by node                                 *)
inferEffects(module) ==
  IF Failed(module) # {}
  THEN [ok |-> FALSE, e |-> [id \in Failed(module) |-> module[id].error]]
  ELSE [ok |-> TRUE, inferredEffects |-> [id \in Inferred(module) |-> module[id].effect]]

errorTreeToString(error) == error.location \o ": " \o error.message

(* sourceMap.get(id): the node id is on line id *)
SourceMap(id) == [start |-> [line |-> id, col |-> 0]]

assembleDiagnostic(explanation, loc) ==
  [severity |-> "Error",
   range |-> [start |-> [line |-> loc.start.line, character |-> loc.start.col],
              end |-> [line |-> loc.start.line, character |-> loc.start.col]],
   message |-> explanation,
   source |-> "parser"]

(* the keys of a map, in ascending order: the order forEach takes them in *)
RECURSIVE Keys(_)
Keys(ids) ==
  IF ids = {} THEN <<>>
  ELSE <<CHOOSE i \in ids : \A j \in ids : i <= j>>
         \o Keys(ids \ {CHOOSE i \in ids : \A j \in ids : i <= j})

(* result.mapLeft(e => e.forEach(... diagnostics.push(diag))) *)
DiagnosticsOf(result) ==
  IF result.ok THEN <<>>
  ELSE [k \in 1..Len(Keys(DOMAIN result.e)) |->
          assembleDiagnostic(errorTreeToString(result.e[Keys(DOMAIN result.e)[k]]),
                             SourceMap(Keys(DOMAIN result.e)[k]))]

(* inferredEffects.forEach((effect, id) => effects.set(loc, effectToString(effect))) *)
EffectsOf(result) ==
  [loc \in {SourceMap(id) : id \in DOMAIN result.inferredEffects} |->
     effectToString(<<>>, result.inferredEffects[loc.start.line])]

(* checkEffects once the inference has returned result *)
Checked(result) ==
  /\ diagnostics' = (textDocument.uri :> DiagnosticsOf(result)) @@ diagnostics
  /\ IF result.ok
     THEN /\ effectsByDocument' = (textDocument.uri :> EffectsOf(result)) @@ effectsByDocument
          /\ documentsByUri' = (textDocument.uri :> textDocument) @@ documentsByUri
     ELSE UNCHANGED <<effectsByDocument, documentsByUri>>

InitServer == UnifierIdle /\ ServerIdle /\ ResolverIdle /\ ReplIdle /\ pc = "idle"

Version == textDocument.version

(* documents.onDidChangeContent, the document parsing without an error:    *)
(* validateTextDocument resolves with its module                           *)
DidChangeContent ==
  /\ pc \in {"idle", "checked"}
  /\ Version < MaxChanges
  /\ \E uri \in Uris, module \in Modules :
       /\ textDocument' = [uri |-> uri, version |-> Version + 1]
       /\ tntModule' = module
  /\ pc' = "validated"
  /\ UNCHANGED <<effectsByDocument, documentsByUri, diagnostics, hover>>
  /\ UNCHANGED <<heap, ea, eb, subsA, subsB, bag, bagA, bagB, out, out2, applied, applied2>>
  /\ UNCHANGED <<resolverVars, replVars>>

(* documents.onDidChangeContent, the document not parsing: the parser's    *)
(* diagnostics are sent and checkEffects is not called                     *)
DidChangeContentWithError ==
  /\ pc \in {"idle", "checked"}
  /\ Version < MaxChanges
  /\ \E uri \in Uris :
       /\ textDocument' = [uri |-> uri, version |-> Version + 1]
       /\ diagnostics' = (uri :> <<assembleDiagnostic("syntax error", SourceMap(1))>>) @@ diagnostics
  /\ tntModule' = NoModule
  /\ pc' = "idle"
  /\ UNCHANGED <<effectsByDocument, documentsByUri, hover>>
  /\ UNCHANGED <<heap, ea, eb, subsA, subsB, bag, bagA, bagB, out, out2, applied, applied2>>
  /\ UNCHANGED <<resolverVars, replVars>>

CheckEffects ==
  /\ pc = "validated"
  /\ Checked(inferEffects(tntModule))
  /\ pc' = "checked"
  /\ UNCHANGED <<textDocument, tntModule, hover>>
  /\ UNCHANGED <<heap, ea, eb, subsA, subsB, bag, bagA, bagB, out, out2, applied, applied2>>
  /\ UNCHANGED <<resolverVars, replVars>>

(* the effects on a position: the location has no end, so it is on the     *)
(* position when it starts on its line or above, at its column or before   *)
EffectsOnPosition(effects, position) ==
  {loc \in DOMAIN effects :
     position.line >= loc.start.line /\ position.character >= loc.start.col}

(* `${t}: ${e}`, the text of a location without an end being empty *)
HoverContents(effects, loc) ==
  [kind |-> "plaintext", value |-> "" \o ": " \o effects[loc]]

(* the answer of onHover to a request on a document with effects: the      *)
(* first of the sorted effects on the position (the comparator puts any    *)
(* location without an end first, so any of them may come first)           *)
Hovered(uri, effects, onPosition) ==
  IF onPosition = {}
  THEN hover' = [uri |-> uri, answered |-> TRUE, contents |-> [kind |-> "plaintext", value |-> "undefined"]]
  ELSE \E loc \in onPosition :
         hover' = [uri |-> uri, answered |-> TRUE, contents |-> HoverContents(effects, loc)]

(* connection.onHover *)
OnHover ==
  /\ pc \in {"idle", "checked"}
  /\ \E uri \in Uris, line \in 1..MaxNodes :
       IF uri \notin DOMAIN effectsByDocument
       THEN hover' = [uri |-> uri, answered |-> FALSE]
       ELSE Hovered(uri, effectsByDocument[uri],
                    EffectsOnPosition(effectsByDocument[uri], [line |-> line, character |-> 0]))
  /\ UNCHANGED <<effectsByDocument, documentsByUri, diagnostics, textDocument, tntModule, pc>>
  /\ UNCHANGED <<heap, ea, eb, subsA, subsB, bag, bagA, bagB, out, out2, applied, applied2>>
  /\ UNCHANGED <<resolverVars, replVars>>

NextServer == DidChangeContent \/ DidChangeContentWithError \/ CheckEffects \/ OnHover

SpecServer == InitServer /\ [][NextServer]_vars

(***************************************************************************)
(* Properties of the language server.                                      *)
(***************************************************************************)
(* C18 (partial results reach the consumers): when the inference fails at  *)
(* some node of a module, the effects of the nodes that were inferred are  *)
(* kept for the document, together with the diagnostics of the errors.     *)
C18_PartialResultsDelivered ==
  (pc = "checked" /\ Failed(tntModule) # {} /\ Inferred(tntModule) # {}) =>
    /\ Len(diagnostics[textDocument.uri]) = Cardinality(Failed(tntModule))
    /\ textDocument.uri \in DOMAIN documentsByUri
    /\ documentsByUri[textDocument.uri] = textDocument
    /\ \A id \in Inferred(tntModule) :
         /\ SourceMap(id) \in DOMAIN effectsByDocument[textDocument.uri]
         /\ effectsByDocument[textDocument.uri][SourceMap(id)]
              = effectToString(<<>>, tntModule[id].effect)

(* C28 (freshness of hover): after a change of a document for which the    *)
(* parser or the inference reported errors, a hover request on the         *)
(* document is not answered with effects computed from an earlier version  *)
(* of the document.                                                        *)
C28_HoverFreshness ==
  [][(/\ OnHover
      /\ hover'.uri = textDocument.uri
      /\ diagnostics[textDocument.uri] # <<>>
      /\ hover'.answered
      /\ hover'.contents.value # "undefined")
       => documentsByUri[textDocument.uri].version = textDocument.version]_vars

(***************************************************************************)
(* The name resolver (nameResolver.ts).  The walk over a module is the     *)
(* sequence of the nodes the visitor is called on; the node at position k  *)
(* has the id k.  The scope tree gives every id its parent.                *)
(***************************************************************************)
MaxId == 2

MaxDefs == 1

MaxWalk == 2

Identifiers == {"x", "y"}

TypeNames == {"T", "U"}

(* the scope of an unscoped definition: definition.scope is undefined *)
NoScope == -1

Ids == 0..MaxId

ValueDefinitions == [identifier : Identifiers, scope : Ids \cup {NoScope}]

TypeDefinitions == {<<>>, <<[identifier |-> "T"]>>}

SeqsUpTo(S, n) == UNION {[1..k -> S] : k \in 0..n}

Tables ==
  [valueDefinitions : SeqsUpTo(ValueDefinitions, MaxDefs), typeDefinitions : TypeDefinitions]

(* the nodes a visitor method is called on *)
Nodes ==
  [kind : {"def", "name", "app"}, name : Identifiers]
    \cup [kind : {"varType", "constType"}, name : TypeNames]

Walks == SeqsUpTo(Nodes, MaxWalk)

(* the ids above id in the tree, nearest first *)
RECURSIVE Ancestors(_, _, _)
Ancestors(tree, id, n) ==
  IF n = 0 \/ tree[id] = NoScope THEN <<>>
  ELSE <<tree[id]>> \o Ancestors(tree, tree[id], n - 1)

(* id is a root, or the last of the ids above it is one *)
Rooted(tree, id) ==
  \/ tree[id] = NoScope
  \/ tree[Ancestors(tree, id, MaxId)[Len(Ancestors(tree, id, MaxId))]] = NoScope

(* the trees on the ids: one root, and every id below it *)
ScopeTrees ==
  {tree \in [Ids -> Ids \cup {NoScope}] :
     /\ Cardinality({id \in Ids : tree[id] = NoScope}) = 1
     /\ \A id \in Ids : Rooted(tree, id)}

(* scopesForId: the id and the scopes that contain it *)
scopesForId(tree, id) == <<id>> \o Ancestors(tree, id, MaxId)

ScopesInclude(scopes, scope) == \E i \in 1..Len(scopes) : scopes[i] = scope

(* !definition.scope: the scope is undefined, or it is the bigint 0n *)
NotScope(scope) == scope = NoScope \/ scope = 0

filterScope(valueDefinitions, scopes) ==
  SelectSeq(valueDefinitions,
            LAMBDA definition : NotScope(definition.scope) \/ ScopesInclude(scopes, definition.scope))

Some(definitions, name) == \E i \in 1..Len(definitions) : definitions[i].identifier = name

NameError(kind, name, definitionName, reference) ==
  [kind |-> kind, name |-> name, definitionName |-> definitionName, reference |-> reference]

ErrorResult(errors) == [kind |-> "error", errors |-> errors]

OkResult == [kind |-> "ok"]

(* results.reduce(...): the errors of the results, in their order *)
mergeNameResults(rs) ==
  IF Len(Flat([i \in 1..Len(rs) |-> IF rs[i].kind = "error" THEN rs[i].errors ELSE <<>>])) > 0
  THEN ErrorResult(Flat([i \in 1..Len(rs) |-> IF rs[i].kind = "error" THEN rs[i].errors ELSE <<>>]))
  ELSE OkResult

StartResolver(t, tree, w) ==
  /\ UnifierIdle
  /\ ServerIdle
  /\ ReplIdle
  /\ table = t
  /\ scopeTree = tree
  /\ walk = [k \in 1..Len(w) |-> [kind |-> w[k].kind, name |-> w[k].name, id |-> k]]
  /\ visited = 0
  /\ nameResults = <<>>
  /\ defName = ""
  /\ resolution = OkResult
  /\ pc = "walking"

InitResolver == \E t \in Tables, tree \in ScopeTrees, w \in Walks : StartResolver(t, tree, w)

(* the visitor is called on the next node of the walk *)
Visiting(kind) ==
  /\ pc = "walking"
  /\ visited < Len(walk)
  /\ walk[visited + 1].kind = kind
  /\ visited' = visited + 1
  /\ pc' = "walking"
  /\ UNCHANGED <<table, scopeTree, walk, resolution>>
  /\ UNCHANGED <<serverVars, replVars>>
  /\ UNCHANGED <<heap, ea, eb, subsA, subsB, bag, bagA, bagB, out, out2, applied, applied2>>

Push(found, error) ==
  nameResults' = IF found THEN nameResults ELSE Append(nameResults, ErrorResult(<<error>>))

visitDef ==
  /\ Visiting("def")
  /\ defName' = walk[visited + 1].name
  /\ UNCHANGED nameResults

visitName ==
  /\ Visiting("name")
  /\ Push(Some(filterScope(table.valueDefinitions, scopesForId(scopeTree, walk[visited + 1].id)), walk[visited + 1].name),
          NameError("value", walk[visited + 1].name, defName, walk[visited + 1].id))
  /\ UNCHANGED defName

visitApp ==
  /\ Visiting("app")
  /\ Push(Some(filterScope(table.valueDefinitions, scopesForId(scopeTree, walk[visited + 1].id)), walk[visited + 1].name),
          NameError("value", walk[visited + 1].name, defName, walk[visited + 1].id))
  /\ UNCHANGED defName

visitVarType ==
  /\ Visiting("varType")
  /\ Push(Some(table.typeDefinitions, walk[visited + 1].name),
          NameError("type", walk[visited + 1].name, defName, walk[visited + 1].id))
  /\ UNCHANGED defName

visitConstType ==
  /\ Visiting("constType")
  /\ Push(Some(table.typeDefinitions, walk[visited + 1].name),
          NameError("type", walk[visited + 1].name, defName, walk[visited + 1].id))
  /\ UNCHANGED defName

(* resolveNames returns, the walk being over *)
resolveNames ==
  /\ pc = "walking"
  /\ visited = Len(walk)
  /\ resolution' = mergeNameResults(nameResults)
  /\ pc' = "resolved"
  /\ UNCHANGED <<table, scopeTree, walk, visited, nameResults, defName>>
  /\ UNCHANGED <<serverVars, replVars>>
  /\ UNCHANGED <<heap, ea, eb, subsA, subsB, bag, bagA, bagB, out, out2, applied, applied2>>

NextResolver ==
  visitDef \/ visitName \/ visitApp \/ visitVarType \/ visitConstType \/ resolveNames

SpecResolver == InitResolver /\ [][NextResolver]_vars

(***************************************************************************)
(* Properties of the name resolver.                                        *)
(***************************************************************************)
(* a value definition of the name that is unscoped, or whose scope is the  *)
(* node or one of the scopes that contain it                               *)
Visible(node) ==
  \E i \in 1..Len(table.valueDefinitions) :
    /\ table.valueDefinitions[i].identifier = node.name
    /\ \/ table.valueDefinitions[i].scope = NoScope
       \/ table.valueDefinitions[i].scope \in Range(scopesForId(scopeTree, node.id))

(* C19 (scopes): a name expression or an operator application with the id  *)
(* i is reported as unresolved iff the table has no value definition of    *)
(* the same identifier that is unscoped or whose scope is one of the       *)
(* scopes containing i: a definition with a scope, whatever its id, is not *)
(* visible outside that scope.                                             *)
C19_ScopedResolution ==
  [][(visitName \/ visitApp) =>
       (nameResults' # nameResults <=> ~Visible(walk[visited + 1]))]_vars

Defined(node) ==
  CASE node.kind \in {"name", "app"} -> Visible(node)
    [] node.kind \in {"varType", "constType"} -> Some(table.typeDefinitions, node.name)
    [] OTHER -> TRUE

(* the occurrences that are not defined, in the order of the walk *)
Unresolved == SelectSeq(walk, LAMBDA node : ~Defined(node))

(* C20 (result of resolveNames): the result is ok iff every name           *)
(* expression, applied operator and named type visited is defined;         *)
(* otherwise it is an error that lists one NameError for each occurrence   *)
(* that is not, in the order of the visits, with the id of its node.       *)
C20_ResolveNamesResult ==
  pc = "resolved" =>
    IF Unresolved = <<>>
    THEN resolution = OkResult
    ELSE /\ resolution.kind = "error"
         /\ Len(resolution.errors) = Len(Unresolved)
         /\ \A k \in 1..Len(Unresolved) :
              /\ resolution.errors[k].reference = Unresolved[k].id
              /\ resolution.errors[k].name = Unresolved[k].name

(***************************************************************************)
(* The REPL (repl.ts).  A line is the sequence of its characters.  What    *)
(* the parser, the compiler and the evaluator make of an input is not      *)
(* decided by the REPL: it is an outcome chosen with each call.            *)
(***************************************************************************)
MaxEvents == 3

MaxReplay == 2

Whitespace == {" ", "\n"}

(* str.trim() *)
RECURSIVE trimStart(_)
trimStart(str) ==
  IF Len(str) > 0 /\ str[1] \in Whitespace THEN trimStart(Tail(str)) ELSE str

RECURSIVE trimEnd(_)
trimEnd(str) ==
  IF Len(str) > 0 /\ str[Len(str)] \in Whitespace
  THEN trimEnd(SubSeq(str, 1, Len(str) - 1))
  ELSE str

trim(str) == trimEnd(trimStart(str))

(* str.indexOf(prefix) === 0 *)
StartsWith(str, prefix) ==
  Len(str) >= Len(prefix) /\ SubSeq(str, 1, Len(prefix)) = prefix

(* the text after the marker ">>> " or "... ", when the line starts with   *)
(* one after its leading spaces; else the line                             *)
trimReplDecorations(line) ==
  IF StartsWith(trimStart(line), <<">", ">", ">", " ">>)
       \/ StartsWith(trimStart(line), <<".", ".", ".", " ">>)
  THEN SubSeq(trimStart(line), 5, Len(trimStart(line)))
  ELSE line

(* the loop of countBraces from the position i (the first is 1) *)
RECURSIVE CountFrom(_, _, _, _, _)
CountFrom(str, i, braces, paren, comments) ==
  IF i > Len(str) THEN <<braces, paren, comments>>
  ELSE CASE str[i] = "{" -> CountFrom(str, i + 1, braces + 1, paren, comments)
         [] str[i] = "}" -> CountFrom(str, i + 1, braces - 1, paren, comments)
         [] str[i] = "(" -> CountFrom(str, i + 1, braces, paren + 1, comments)
         [] str[i] = ")" -> CountFrom(str, i + 1, braces, paren - 1, comments)
         [] str[i] = "/" ->
              IF i + 1 <= Len(str) /\ str[i + 1] = "*"
              THEN CountFrom(str, i + 2, braces, paren, comments + 1)
              ELSE CountFrom(str, i + 1, braces, paren, comments)
         [] str[i] = "*" ->
              IF i + 1 <= Len(str) /\ str[i + 1] = "/"
              THEN CountFrom(str, i + 2, braces, paren, comments - 1)
              ELSE CountFrom(str, i + 1, braces, paren, comments)
         [] OTHER -> CountFrom(str, i + 1, braces, paren, comments)

countBraces(str) == CountFrom(str, 1, 0, 0, 0)

(* the error lists of a compilation context that are not empty *)
ErrorLists == {{}, {"syntax"}, {"compile"}, {"analysis"}}

(* an expression: the context of compileExpr, and what evalExpr gets from  *)
(* it (a value, the value true of an action that sets the variables, or    *)
(* no value)                                                               *)
ExprOutcomes ==
  [kind : {"expr"}, errors : {{}, {"analysis"}}, eval : {"value", "action", "undefined"}]
    \cup [kind : {"expr"}, errors : {{"syntax"}, {"compile"}}, eval : {"undefined"}]

(* a definition: the context of compileDef, with the size of its values    *)
(* and its compilation state                                               *)
ToplevelOutcomes ==
  [kind : {"toplevel"}, errors : ErrorLists, values : {0, 1}, compilationState : {"c1"}]

(* parseExpressionOrUnit and what follows it *)
Outcomes == {[kind |-> "error"], [kind |-> "none"]} \cup ExprOutcomes \cup ToplevelOutcomes

(* the return of a call on a REPL state *)
Returned(st, result) == [state |-> st, result |-> result]

(* evalExpr: the variables are saved when the expression is an action *)
evalExpr(st, o) ==
  CASE o.eval = "undefined" -> Returned(st, FALSE)
    [] o.eval = "action" -> Returned([st EXCEPT !.vars = ("x" :> Len(st.exprHist))], TRUE)
    [] OTHER -> Returned(st, TRUE)

(* a tryEval that records the expression before it looks at the errors *)
tryEvalRecordingFirst(st, newInput, o) ==
  CASE o.kind = "error" -> Returned(st, FALSE)
    [] o.kind = "none" -> Returned(st, TRUE)
    [] o.kind = "expr" ->
         IF "syntax" \in o.errors \/ "compile" \in o.errors
         THEN Returned([st EXCEPT !.exprHist = Append(@, trim(newInput))], FALSE)
         ELSE evalExpr([st EXCEPT !.exprHist = Append(@, trim(newInput))], o)
    [] o.kind = "toplevel" ->
         IF o.values = 0 \/ "compile" \in o.errors \/ "syntax" \in o.errors
         THEN Returned(st, FALSE)
         ELSE Returned([st EXCEPT !.defsHist = @ \o <<"\n">> \o newInput,
                                  !.compilationState = o.compilationState], TRUE)

tryEval(st, newInput, o) ==
  CASE o.kind = "error" -> Returned(st, FALSE)
    [] o.kind = "none" -> Returned(st, TRUE)
    [] o.kind = "expr" ->
         IF "syntax" \in o.errors \/ "compile" \in o.errors
         THEN Returned(st, FALSE)
         ELSE evalExpr([st EXCEPT !.exprHist = Append(@, trim(newInput))], o)
    [] o.kind = "toplevel" ->
         IF o.values = 0 \/ "compile" \in o.errors \/ "syntax" \in o.errors
         THEN Returned(st, FALSE)
         ELSE Returned([st EXCEPT !.defsHist = @ \o <<"\n">> \o newInput,
                                  !.compilationState = o.compilationState], TRUE)

tryEvalHistory(st, o) ==
  IF o.values = 0 \/ "compile" \in o.errors \/ "syntax" \in o.errors
  THEN Returned(st, FALSE)
  ELSE Returned([st EXCEPT !.compilationState = o.compilationState], TRUE)

clearHistory(st) ==
  [st EXCEPT !.moduleHist = <<>>,
             !.defsHist = <<>>,
             !.exprHist = <<>>,
             !.compilationState = replInitialCompilationState]

(* the array of exprHist and the Map of vars are objects that the copy     *)
(* { ...state } shares with state: what was done to them through the copy  *)
(* newState is seen in state                                               *)
Shared(st, newState) == [st EXCEPT !.exprHist = newState.exprHist, !.vars = newState.vars]

(* the four assignments at the end of loadFromFile *)
Assigned(st, newState) ==
  [Shared(st, newState) EXCEPT !.moduleHist = newState.moduleHist,
                               !.defsHist = newState.defsHist,
                               !.compilationState = newState.compilationState]

(* the expressions of a session replayed one by one, up to the first that  *)
(* tryEval rejects                                                         *)
RECURSIVE Replay(_, _)
Replay(newState, exprs) ==
  IF Len(exprs) = 0 THEN Returned(newState, TRUE)
  ELSE IF ~tryEval(newState, exprs[1].text, exprs[1].outcome).result
       THEN tryEval(newState, exprs[1].text, exprs[1].outcome)
       ELSE Replay(tryEval(newState, exprs[1].text, exprs[1].outcome).state, Tail(exprs))

(* loadFromFile returns: false leaves the fields of state as they are,     *)
(* true assigns them from newState                                         *)
Loaded(st, r) ==
  IF r.result THEN Returned(Assigned(st, r.state), TRUE) ELSE Returned(Shared(st, r.state), FALSE)

(* loadFromFile once the history of newState was evaluated *)
ReplayAfterHistory(h, data) ==
  IF ~h.result THEN h
  ELSE IF data.session THEN Replay(h.state, data.exprs) ELSE h

loadFromFile(st, data) ==
  IF ~data.readable THEN Returned(st, FALSE)
  ELSE IF data.session
       THEN Loaded(st, ReplayAfterHistory(
                         tryEvalHistory([st EXCEPT !.moduleHist = data.modules,
                                                   !.defsHist = data.defs], data.history),
                         data))
       ELSE Loaded(st, tryEvalHistory([st EXCEPT !.moduleHist = data.modules], data.history))

(* the lines typed: empty, balanced, opening or closing a brace, a         *)
(* parenthesis or a comment, and lines pasted from the output of the REPL  *)
Lines ==
  {<<>>, <<"1">>, <<"{">>, <<"}">>, <<"(">>, <<")">>, <<"/", "*">>, <<"*", "/">>,
   <<">", ">", ">", " ", "1">>, <<" ", ".", ".", ".", " ", "1">>}

FileNames == {"a", "b"}

ModuleNames == {"undefined", "M"}

(* the contexts of compileFromCode on the history of a file *)
HistoryOutcomes ==
  {[values |-> 1, errors |-> {}, compilationState |-> "c1"],
   [values |-> 1, errors |-> {"compile"}, compilationState |-> "c1"]}

(* the expressions of a saved session, each with what tryEval makes of it *)
Replayed ==
  [text : {<<"1">>},
   outcome : [kind : {"expr"}, errors : {{}}, eval : {"value", "action", "undefined"}]]

ReplayedUpTo(n) == UNION {[1..k -> Replayed] : k \in 0..n}

(* what readFileSync finds: nothing, modules only, or a session *)
FileData(name, n) ==
  {[readable |-> FALSE]}
    \cup [readable : {TRUE}, session : {FALSE}, modules : {<<"m", name>>},
          history : HistoryOutcomes]
    \cup [readable : {TRUE}, session : {TRUE}, modules : {<<"m", name>>}, defs : {<<"d">>},
          history : HistoryOutcomes, exprs : ReplayedUpTo(n)]

(* what tryEval makes of `import ${moduleName}.*` *)
ImportOutcomes ==
  {[kind |-> "error"],
   [kind |-> "toplevel", errors |-> {}, values |-> 1, compilationState |-> "c2"],
   [kind |-> "toplevel", errors |-> {"compile"}, values |-> 1, compilationState |-> "c2"]}

InitRepl == UnifierIdle /\ ServerIdle /\ ResolverIdle /\ ReplIdle /\ pc = "repl"

(* an event is handled: nothing but the REPL moves *)
Handling(e) ==
  /\ pc = "repl"
  /\ nEvents < MaxEvents
  /\ nEvents' = nEvents + 1
  /\ event' = e
  /\ UNCHANGED <<serverVars, resolverVars, pc>>
  /\ UNCHANGED <<heap, ea, eb, subsA, subsB, bag, bagA, bagB, out, out2, applied, applied2>>

Call(fn, arg, r) == [fn |-> fn, arg |-> arg, result |-> r.result]

(* a call of tryEval on newInput, what the parser and the compiler made of *)
(* the input being o, that returned r                                      *)
Evaluation(newInput, o, r) ==
  [fn |-> "tryEval", arg |-> newInput, outcome |-> o, result |-> r.result]

(* tryEval(out, state, newInput) is called *)
Evaluated(newInput, o) ==
  /\ state' = tryEval(state, newInput, o).state
  /\ calls' = <<Evaluation(newInput, o, tryEval(state, newInput, o))>>

(* nextLine at the main prompt, the counters being updated *)
EnterOrEval(line, braces, paren, comments, recycling) ==
  /\ recyclingOwnOutput' = recycling
  /\ IF braces > 0 \/ paren > 0 \/ comments > 0 \/ recycling
     THEN /\ multilineText' = trimReplDecorations(line)
          /\ rlPrompt' = settingsContinuePrompt
          /\ UNCHANGED <<state>>
          /\ calls' = <<>>
     ELSE /\ IF trim(line) = <<>>
             THEN UNCHANGED <<state>> /\ calls' = <<>>
             ELSE \E o \in Outcomes : Evaluated(line \o <<"\n">>, o)
          /\ UNCHANGED <<multilineText, rlPrompt>>

(* nextLine in multiline mode, the counters being updated *)
EndOrContinue(trimmedLine, braces, paren, comments, continueOwnOutput) ==
  IF \/ (Len(trimmedLine) = 0 /\ braces <= 0 /\ paren <= 0 /\ comments <= 0)
     \/ (recyclingOwnOutput /\ ~continueOwnOutput)
  THEN /\ \E o \in Outcomes : Evaluated(multilineText, o)
       /\ multilineText' = <<>>
       /\ recyclingOwnOutput' = FALSE
       /\ rlPrompt' = settingsPrompt
  ELSE /\ multilineText' = multilineText \o <<"\n">> \o trimReplDecorations(trimmedLine)
       /\ calls' = <<>>
       /\ UNCHANGED <<state, recyclingOwnOutput, rlPrompt>>

Counted(line, counts) ==
  /\ nOpenBraces' = nOpenBraces + counts[1]
  /\ nOpenParen' = nOpenParen + counts[2]
  /\ nOpenComments' = nOpenComments + counts[3]
  /\ IF multilineText = <<>>
     THEN EnterOrEval(line, nOpenBraces + counts[1], nOpenParen + counts[2],
                      nOpenComments + counts[3],
                      settingsPrompt # <<>> /\ StartsWith(trim(line), settingsPrompt))
     ELSE EndOrContinue(trim(line), nOpenBraces + counts[1], nOpenParen + counts[2],
                        nOpenComments + counts[3],
                        settingsContinuePrompt # <<>>
                          /\ StartsWith(trim(line), settingsContinuePrompt))

(* rl.on('line') with a line that does not start with a dot *)
nextLine ==
  \E line \in Lines :
    /\ Handling([kind |-> "line", line |-> line])
    /\ Counted(line, countBraces(line))

(* a Ctrl-C handler that forgets the counters *)
SIGINTKeepingCounters ==
  /\ Handling([kind |-> "SIGINT"])
  /\ multilineText' = <<>>
  /\ rlPrompt' = settingsPrompt
  /\ calls' = <<>>
  /\ UNCHANGED <<state, recyclingOwnOutput, nOpenBraces, nOpenParen, nOpenComments>>

(* rl.on('SIGINT') *)
SIGINT ==
  /\ Handling([kind |-> "SIGINT"])
  /\ multilineText' = <<>>
  /\ nOpenBraces' = 0
  /\ nOpenParen' = 0
  /\ nOpenComments' = 0
  /\ rlPrompt' = settingsPrompt
  /\ calls' = <<>>
  /\ UNCHANGED <<state, recyclingOwnOutput>>

(* the command .clear *)
clear ==
  /\ Handling([kind |-> "clear"])
  /\ state' = clearHistory(state)
  /\ calls' = <<>>
  /\ UNCHANGED <<multilineText, recyclingOwnOutput, nOpenBraces, nOpenParen, nOpenComments, rlPrompt>>

(* load once loadFromFile has returned true and the import returned r *)
Imported(st, filename, moduleName, loaded, o, r) ==
  /\ state' = [r.state EXCEPT !.lastLoadedFileAndModule =
                 <<filename, IF r.result THEN moduleName ELSE st.lastLoadedFileAndModule[2]>>]
  /\ calls' = <<Call("loadFromFile", filename, loaded),
                Evaluation(<<"import ", moduleName, ".*">>, o, r)>>

(* load once loadFromFile has returned *)
AfterLoad(filename, moduleName, loaded) ==
  IF ~loaded.result
  THEN state' = loaded.state /\ calls' = <<Call("loadFromFile", filename, loaded)>>
  ELSE IF moduleName = "undefined"
       THEN /\ state' = [loaded.state EXCEPT !.lastLoadedFileAndModule[1] = filename]
            /\ calls' = <<Call("loadFromFile", filename, loaded)>>
       ELSE \E o \in ImportOutcomes :
              Imported(loaded.state, filename, moduleName, loaded, o,
                       tryEval([loaded.state EXCEPT !.lastLoadedFileAndModule[1] = filename],
                               <<"import ", moduleName, ".*">>, o))

load(filename, moduleName) ==
  /\ \E data \in FileData(filename, MaxReplay) :
       AfterLoad(filename, moduleName, loadFromFile(clearHistory(state), data))
  /\ UNCHANGED <<multilineText, recyclingOwnOutput, nOpenBraces, nOpenParen, nOpenComments, rlPrompt>>

(* the command .load filename [moduleName] *)
Load ==
  \E filename \in FileNames, moduleName \in ModuleNames :
    /\ Handling([kind |-> "load"])
    /\ load(filename, moduleName)

(* the command .reload *)
Reload ==
  /\ Handling([kind |-> "reload"])
  /\ IF state.lastLoadedFileAndModule[1] # "undefined"
     THEN load(state.lastLoadedFileAndModule[1], state.lastLoadedFileAndModule[2])
     ELSE /\ calls' = <<>>
          /\ UNCHANGED <<state, multilineText, recyclingOwnOutput, nOpenBraces, nOpenParen,
                         nOpenComments, rlPrompt>>

NextRepl == nextLine \/ SIGINT \/ clear \/ Load \/ Reload

SpecRepl == InitRepl /\ [][NextRepl]_vars

(* the REPL receiving lines and Ctrl-C only *)
NextInput == nextLine \/ SIGINT

SpecInput == InitRepl /\ [][NextInput]_vars

(***************************************************************************)
(* Properties of the REPL.                                                 *)
(***************************************************************************)
InMultilineMode == multilineText # <<>>

(* the handler has passed the text to tryEval, and nothing else *)
EvaluatedText(text) ==
  Len(calls') = 1 /\ calls'[1].fn = "tryEval" /\ calls'[1].arg = text

(* C21 (end of multiline mode): in multiline mode an empty line ends the   *)
(* mode: the text collected is evaluated, the buffer is cleared and the    *)
(* main prompt is set.                                                     *)
C21_EmptyLineEndsMultiline ==
  [][(nextLine /\ InMultilineMode /\ event'.line = <<>>)
       => /\ EvaluatedText(multilineText)
          /\ multilineText' = <<>>
          /\ rlPrompt' = settingsPrompt]_vars

InputReset ==
  /\ multilineText' = <<>>
  /\ nOpenBraces' = 0
  /\ nOpenParen' = 0
  /\ nOpenComments' = 0
  /\ rlPrompt' = settingsPrompt

Balanced(line) == countBraces(line) = <<0, 0, 0>>

AfterSigint == event.kind = "SIGINT"

(* C23 (Ctrl-C) as stated: after a SIGINT the buffer is empty, the three   *)
(* counters are 0 and the main prompt is set, the history is as it was,    *)
(* and the next line, when it is balanced, is evaluated at once.           *)
C23_SigintResets ==
  [][/\ SIGINT => (InputReset /\ state' = state)
     /\ (AfterSigint /\ nextLine /\ Balanced(event'.line))
          => EvaluatedText(event'.line \o <<"\n">>)]_vars

(* C23 (Ctrl-C), amended: the same, the next balanced line being evaluated *)
(* at once when it is not blank and does not start with the prompt.        *)
C23_SigintResetsTypedLine ==
  [][/\ SIGINT => (InputReset /\ state' = state)
     /\ (/\ AfterSigint
         /\ nextLine
         /\ Balanced(event'.line)
         /\ trim(event'.line) # <<>>
         /\ ~StartsWith(trim(event'.line), settingsPrompt))
          => EvaluatedText(event'.line \o <<"\n">>)]_vars

(* Ctrl-C was pressed in multiline mode entered by pasted output, after an *)
(* expression had entered the history                                     *)
C23_Witness ==
  AfterSigint /\ recyclingOwnOutput /\ state.exprHist # <<>> /\ multilineText = <<>>

(* the input did not parse, or its compilation gave syntax or compile errors *)
Rejected(o) ==
  \/ o.kind = "error"
  \/ o.kind \in {"expr", "toplevel"} /\ ("syntax" \in o.errors \/ "compile" \in o.errors)

(* the input compiled to something, with static-analysis errors only *)
AnalysisErrorsOnly(o) ==
  /\ o.kind \in {"expr", "toplevel"}
  /\ o.errors = {"analysis"}
  /\ o.kind = "toplevel" => o.values > 0

SameHistory(st, newState) ==
  /\ newState.defsHist = st.defsHist
  /\ newState.exprHist = st.exprHist
  /\ newState.compilationState = st.compilationState

Accepted(st, newState, newInput, o) ==
  IF o.kind = "toplevel"
  THEN newState.defsHist = st.defsHist \o <<"\n">> \o newInput
  ELSE newState.exprHist = Append(st.exprHist, trim(newInput))

C25_CountersZeroAtMainPrompt ==
  (pc = "repl" /\ ~InMultilineMode)
    => (nOpenBraces = 0 /\ nOpenParen = 0 /\ nOpenComments = 0)

LoadFromFileReturned(result) ==
  calls' # <<>> /\ calls'[1].fn = "loadFromFile" /\ calls'[1].result = result

SameContents(st, newState) ==
  /\ newState.moduleHist = st.moduleHist
  /\ newState.defsHist = st.defsHist
  /\ newState.exprHist = st.exprHist
  /\ newState.vars = st.vars
  /\ newState.compilationState = st.compilationState

(* C26 (loadFromFile is all-or-nothing): when loadFromFile returns false,  *)
(* moduleHist, defsHist, the contents of exprHist, vars and                *)
(* compilationState are what they were when it was called, that is, after  *)
(* the clearHistory() of load.                                             *)
C26_LoadAllOrNothing ==
  [][((Load \/ Reload) /\ LoadFromFileReturned(FALSE))
       => SameContents(clearHistory(state), state')]_vars

(* this step loaded the file and imported the module with success *)
ImportedBy(filename, moduleName) ==
  /\ Len(calls') = 2
  /\ calls'[1].fn = "loadFromFile" /\ calls'[1].arg = filename /\ calls'[1].result
  /\ calls'[2].fn = "tryEval" /\ calls'[2].arg = <<"import ", moduleName, ".*">>
  /\ calls'[2].result

(* C27 (the remembered file and module): a step that changes the           *)
(* remembered pair leaves no module remembered, or remembers the module    *)
(* that this very load of the remembered file imported with success.       *)
C27_RememberedPair ==
  [][\/ state'.lastLoadedFileAndModule = state.lastLoadedFileAndModule
     \/ state'.lastLoadedFileAndModule[2] = "undefined"
     \/ ImportedBy(state'.lastLoadedFileAndModule[1], state'.lastLoadedFileAndModule[2])]_vars

====
